---------------------------- MODULE Spec2Model ----------------------------
(***************************************************************************)
(* Situation classification and eligibility / defense evaluation of the    *)
(* jurist-diction packet generators:                                       *)
(*   - the Tennessee expungement analyzer   (src/unnamed/part_004)         *)
(*   - the multi-state expungement analyzer (src/unnamed/part_000)         *)
(*   - the Tennessee eviction analyzer      (src/lib/eviction-situation-   *)
(*                                           analyzer.js)                  *)
(*   - the multi-state eviction analyzer    (src/unnamed/part_001)         *)
(*                                                                         *)
(* Time is counted in ticks of a quarter day, so that both year lengths    *)
(* the code divides by (365 days and 365.25 days) are whole numbers of     *)
(* ticks and a clock reading may fall between two midnights.  Free text is *)
(* a TLA+ string, matched by substring as String.prototype.includes does.  *)
(***************************************************************************)
EXTENDS Integers, Sequences, FiniteSets, TLC

VARIABLES
    now,        \* the last reading of the wall clock (new Date()), in ticks
    request,    \* the criminal-relief request: [target, state, situation]
    verdict,    \* the result of the last criminal-relief evaluation
    prev,       \* the result of the evaluation before it
    evRequest,  \* the eviction request (situationData)
    evPolicy,   \* the eviction policy data loaded from the data files (read-only)
    evTN,       \* the result of the Tennessee eviction analyzer for the request
    evMulti,    \* the result of the multi-state eviction generator for the request
    loads       \* how often the loaders read the request's policy files so far

vars == <<now, request, verdict, prev, evRequest, evPolicy, evTN, evMulti, loads>>

crimVars == <<request, verdict, prev>>

evVars == <<evRequest, evPolicy, evTN, evMulti>>

-----------------------------------------------------------------------------
(* JavaScript values                                                       *)

\* A field the caller did not send (undefined / null).
Absent == "<absent>"

\* No evaluation has run yet.
None == [kind |-> "none"]

\* s || '' for a text field.
OrEmpty(s) == IF s = Absent THEN "" ELSE s

\* Truthiness of a text field: undefined and '' are falsy.
Truthy(s) == s # Absent /\ s # ""

UpperLetters == "ABCDEFGHIJKLMNOPQRSTUVWXYZ"

LowerLetters == "abcdefghijklmnopqrstuvwxyz"

UpperSet == {SubSeq(UpperLetters, i, i) : i \in 1..Len(UpperLetters)}

\* The lower-case letter of each upper-case letter.
LowerOf ==
    [c \in UpperSet |->
        LET i == CHOOSE j \in 1..Len(UpperLetters) : SubSeq(UpperLetters, j, j) = c
        IN  SubSeq(LowerLetters, i, i)]

LowerChar(c) == IF c \in UpperSet THEN LowerOf[c] ELSE c

RECURSIVE ToLowerCase(_)
\* String.prototype.toLowerCase
ToLowerCase(s) ==
    IF Len(s) = 0 THEN ""
    ELSE LowerChar(SubSeq(s, 1, 1)) \o ToLowerCase(SubSeq(s, 2, Len(s)))

\* String.prototype.includes: kw occurs in text as a substring.
Includes(text, kw) ==
    \E i \in 1..(Len(text) - Len(kw) + 1) : SubSeq(text, i, i + Len(kw) - 1) = kw

\* [..].some(k => text.includes(k))
IncludesAny(text, kws) == \E k \in kws : Includes(text, k)

-----------------------------------------------------------------------------
(* Dates and the clock                                                     *)

\* One day (1000 * 60 * 60 * 24 ms) in ticks.
TicksPerDay == 4

\* The divisor of the Tennessee analyzer: a year of 365 days.
Year365 == 365 * TicksPerDay

\* The divisor of calculateYearsSince: a year of 365.25 days.
Year36525 == (1461 * TicksPerDay) \div 4

\* A date field of a request: absent, a string Date cannot parse, or the
\* ISO calendar date of day number `day`.
NoDate == [kind |-> "absent", day |-> 0]

BadDate == [kind |-> "malformed", day |-> 0]

IsoDate(d) == [kind |-> "iso", day |-> d]

\* f ? new Date(f) : null.  A calendar date parses to its UTC midnight; a
\* malformed string parses to an Invalid Date, whose time value is NaN.
ParseDate(f) ==
    CASE f.kind = "absent"    -> [kind |-> "null", t |-> 0]
      [] f.kind = "malformed" -> [kind |-> "invalid", t |-> 0]
      [] OTHER                -> [kind |-> "date", t |-> f.day * TicksPerDay]

\* Date.prototype.toISOString of the clock reading.
ToISOString(t) == ToString(t)

\* null in a result field.
Null == "<null>"

\* A JavaScript boolean in a result field.
JsBool(b) == IF b THEN "true" ELSE "false"

-----------------------------------------------------------------------------
(* Tennessee expungement analyzer (src/unnamed/part_004)                   *)

\* Waiting period of a felony conviction, in years.
FelonyWaitYears == 5

\* Waiting period of any other conviction, in years.
MisdemeanorWaitYears == 1

sanitizeInput(situation) ==
    [ chargeType             |-> IF Truthy(situation.chargeType)
                                 THEN situation.chargeType ELSE "unknown",
      chargeDescription      |-> IF Truthy(situation.chargeDescription)
                                 THEN situation.chargeDescription ELSE "Not provided",
      convictionDate         |-> situation.convictionDate,
      sentenceCompletionDate |-> situation.sentenceCompletionDate,
      outcome                |-> IF Truthy(situation.outcome)
                                 THEN situation.outcome ELSE "unknown",
      allFinesPaid           |-> situation.allFinesPaid,
      probationCompleted     |-> situation.probationCompleted,
      diversionCompleted     |-> situation.diversionCompleted,
      county                 |-> IF Truthy(situation.county)
                                 THEN situation.county ELSE "unknown",
      hasPendingCharges      |-> situation.hasPendingCharges,
      priorExpungements      |-> situation.priorExpungements ]

extractFelonyClass(type) ==
    CASE Includes(type, "class a") /\ Includes(type, "felony") -> "Class A"
      [] Includes(type, "class b") /\ Includes(type, "felony") -> "Class B"
      [] Includes(type, "class c") /\ Includes(type, "felony") -> "Class C"
      [] Includes(type, "class d") /\ Includes(type, "felony") -> "Class D"
      [] Includes(type, "class e") \/ Includes(type, "classe") -> "Class E"
      [] OTHER -> "Unknown"

extractMisdemeanorClass(type) ==
    CASE Includes(type, "class a") /\ ~Includes(type, "felony") -> "Class A"
      [] Includes(type, "class b") /\ ~Includes(type, "felony") -> "Class B"
      [] Includes(type, "class c") /\ ~Includes(type, "felony") -> "Class C"
      [] OTHER -> "Unknown"

determineChargeType(situation) ==
    LET type == ToLowerCase(OrEmpty(situation.chargeType))
    IN  IF IncludesAny(type, {"felony", "class e", "class d"})
        THEN [category |-> "felony", class |-> extractFelonyClass(type)]
        ELSE IF IncludesAny(type, {"misdemeanor", "class a", "class b", "class c"})
        THEN [category |-> "misdemeanor", class |-> extractMisdemeanorClass(type)]
        ELSE [category |-> "unknown", class |-> "unknown"]

determineOutcome(situation) ==
    LET outcome == ToLowerCase(OrEmpty(situation.outcome))
    IN  IF IncludesAny(outcome, {"dismiss", "dropped"}) THEN "dismissed"
        ELSE IF IncludesAny(outcome, {"acquitt", "not guilty", "found not guilty"})
        THEN "acquitted"
        ELSE IF IncludesAny(outcome, {"diversion", "deferred"})
        THEN IF situation.diversionCompleted
             THEN "diversion_completed" ELSE "diversion_pending"
        ELSE IF IncludesAny(outcome, {"convict", "guilty", "plea"}) THEN "convicted"
        ELSE "unknown"

ViolentIndicators ==
    {"murder", "manslaughter", "kidnap", "robbery", "arson", "homicide",
     "weapon", "firearm", "gun"}

BlockingFactor(factor, statute) == [factor |-> factor, statute |-> statute]

checkIneligibleOffenses(situation, chargeType) ==
    LET description == ToLowerCase(OrEmpty(situation.chargeDescription))
    IN  IF IncludesAny(description, {"dui", "driving under", "d.u.i"})
        THEN [ineligible |-> TRUE,
              reason |-> BlockingFactor("DUI conviction", "TCA 40-32-101(g)")]
        ELSE IF Includes(description, "domestic")
                /\ IncludesAny(description, {"assault", "violence"})
        THEN [ineligible |-> TRUE,
              reason |-> BlockingFactor("Domestic assault conviction", "TCA 40-32-101(g)")]
        ELSE IF IncludesAny(description, {"sex", "rape", "sexual", "statutory"})
        THEN [ineligible |-> TRUE,
              reason |-> BlockingFactor("Sex offense", "TCA 40-32-101")]
        ELSE IF chargeType.category = "felony"
                /\ IncludesAny(description, ViolentIndicators)
        THEN [ineligible |-> TRUE,
              reason |-> BlockingFactor("Violent felony", "TCA 40-32-101(a)(1)(B)")]
        ELSE IF IncludesAny(description, {"traffick", "manufacture", "distribute", "sell"})
        THEN [ineligible |-> TRUE,
              reason |-> BlockingFactor("Drug trafficking/manufacturing", "TCA 40-32-101")]
        ELSE [ineligible |-> FALSE, reason |-> BlockingFactor("", "")]

\* `${n} years` / '1 year' of checkWaitingPeriod.
RequiredText(chargeType) ==
    IF chargeType.category = "felony" THEN "5 years" ELSE "1 year"

\* The comparison of the waiting period turned around.
YearsReached365_Inverted(completionDate, t, years) ==
    /\ completionDate.kind = "date"
    /\ t - completionDate.t <= years * Year365

\* yearsSinceCompletion >= years, where yearsSinceCompletion is the real
\* quotient (now - completionDate) / (one year of 365 days); NaN >= n is false.
YearsReached365(completionDate, t, years) ==
    /\ completionDate.kind = "date"
    /\ t - completionDate.t >= years * Year365

checkWaitingPeriod(situation, chargeType, t) ==
    LET completionDate == ParseDate(situation.sentenceCompletionDate)
    IN  IF completionDate.kind = "null"
        THEN [required |-> RequiredText(chargeType), met |-> FALSE,
              note |-> "Sentence completion date not provided"]
        ELSE IF chargeType.category = "felony"
        THEN [required |-> "5 years",
              met |-> YearsReached365(completionDate, t, FelonyWaitYears),
              note |-> ""]
        ELSE [required |-> "1 year",
              met |-> YearsReached365(completionDate, t, MisdemeanorWaitYears),
              note |-> ""]

checkCourtObligations(situation) ==
    [met |-> situation.allFinesPaid /\ situation.probationCompleted]

OutstandingObligations ==
    [factor |-> "Outstanding court obligations", statute |-> ""]

PendingCharges == [factor |-> "Pending criminal charges", statute |-> ""]

\* The same record with the confidence left undefined.
EligibilityInit_NoConfidence ==
    [ status |-> "unknown", confidence |-> "undefined", reasons |-> <<>>,
      blockingFactors |-> <<>>, waitingPeriod |-> Null,
      waitingPeriodMet |-> "false", requirements |-> <<>> ]

\* The eligibility record as assessEligibility first builds it.
EligibilityInit ==
    [ status |-> "unknown", confidence |-> "low", reasons |-> <<>>,
      blockingFactors |-> <<>>, waitingPeriod |-> Null,
      waitingPeriodMet |-> "false", requirements |-> <<>> ]

assessEligibility(situation, chargeType, outcome, t) ==
    LET e == EligibilityInit
        ineligibilityCheck == checkIneligibleOffenses(situation, chargeType)
        waitingPeriodCheck == checkWaitingPeriod(situation, chargeType, t)
        obligationsCheck   == checkCourtObligations(situation)
        w == [e EXCEPT !.waitingPeriod = waitingPeriodCheck.required,
                       !.waitingPeriodMet = JsBool(waitingPeriodCheck.met)]
    IN  IF situation.hasPendingCharges
        THEN [e EXCEPT !.status = "ineligible",
                       !.blockingFactors = <<PendingCharges>>]
        ELSE IF outcome \in {"dismissed", "acquitted"}
        THEN [e EXCEPT !.status = "eligible", !.confidence = "high",
                       !.waitingPeriod = "None", !.waitingPeriodMet = "true",
                       !.reasons = <<"Charges were dismissed or resulted in acquittal">>,
                       !.requirements =
                           <<"Obtain certified copy of dismissal or acquittal order">>]
        ELSE IF outcome = "diversion_completed"
        THEN [e EXCEPT !.status = "eligible", !.confidence = "high",
                       !.waitingPeriod = "None (after completion)",
                       !.waitingPeriodMet = "true",
                       !.reasons = <<"Diversion program was successfully completed">>,
                       !.requirements =
                           <<"Obtain Certificate of Completion from diversion program">>]
        ELSE IF outcome = "diversion_pending"
        THEN [e EXCEPT !.status = "pending", !.confidence = "medium",
                       !.reasons = <<"Diversion program not yet completed">>,
                       !.requirements = <<"Complete all diversion requirements">>]
        ELSE IF outcome = "convicted"
        THEN IF ineligibilityCheck.ineligible
             THEN [e EXCEPT !.status = "ineligible", !.confidence = "high",
                            !.blockingFactors = <<ineligibilityCheck.reason>>]
             ELSE IF ~waitingPeriodCheck.met
             THEN [w EXCEPT !.status = "pending", !.confidence = "medium",
                            !.reasons = <<"Waiting period of "
                                \o waitingPeriodCheck.required \o " not yet completed">>,
                            !.requirements = <<"Wait until "
                                \o waitingPeriodCheck.required
                                \o " have passed since sentence completion">>]
             ELSE IF ~obligationsCheck.met
             THEN [w EXCEPT !.status = "ineligible", !.confidence = "medium",
                            !.blockingFactors = <<OutstandingObligations>>]
             ELSE [w EXCEPT !.status = "eligible", !.confidence = "medium",
                            !.reasons = <<"Basic eligibility requirements appear to be met">>,
                            !.requirements =
                                <<"Verify eligibility with court clerk or attorney">>]
        ELSE [e EXCEPT !.status = "unknown", !.confidence = "low",
                       !.requirements = <<"Obtain records to determine case outcome">>]

\* The key determineProcedure looks up in procedures.json.
determineProcedure(outcome, chargeType) ==
    CASE outcome \in {"dismissed", "acquitted"} -> "dismissedCharges"
      [] outcome = "diversion_completed"        -> "judicialDiversion"
      [] outcome = "convicted" ->
            IF chargeType.category = "felony"
            THEN "felonyConviction" ELSE "misdemeanorConviction"
      [] OTHER -> "general"

\* The types of the warnings, in the order generateWarnings pushes them.
generateWarnings(situation, eligibility) ==
    (IF eligibility.status = "ineligible" THEN <<"ineligibility">> ELSE <<>>)
    \o (IF eligibility.status = "pending" THEN <<"pending">> ELSE <<>>)
    \o (IF eligibility.confidence = "low" THEN <<"uncertainty">> ELSE <<>>)
    \o (IF situation.priorExpungements > 0 THEN <<"prior_expungement">> ELSE <<>>)

\* The actions of the recommendations, in the order they are pushed.
generateRecommendations(situation, eligibility) ==
    <<"Obtain complete criminal records",
      "Consult with a licensed Tennessee attorney">>
    \o (IF eligibility.status = "eligible"
        THEN <<"Verify eligibility with the court clerk",
               "Gather all required documentation">>
        ELSE <<>>)
    \o (IF ~situation.allFinesPaid
        THEN <<"Pay all outstanding fines and court costs">> ELSE <<>>)

\* analyzeSituation of the Tennessee analyzer, run when the clock reads t.
\* nextSteps, timeline and fees are copied from procedures.json and
\* statutes.json by the procedure key and are not part of the record here.
analyzeSituationTN(situation, t) ==
    LET chargeType  == determineChargeType(situation)
        outcome     == determineOutcome(situation)
        eligibility == assessEligibility(situation, chargeType, outcome, t)
    IN  [ timestamp       |-> ToISOString(t),
          input           |-> sanitizeInput(situation),
          eligibility     |-> eligibility,
          procedure       |-> determineProcedure(outcome, chargeType),
          warnings        |-> generateWarnings(situation, eligibility),
          recommendations |-> generateRecommendations(situation, eligibility) ]

-----------------------------------------------------------------------------
(* Multi-state expungement analyzer (src/unnamed/part_000)                 *)

\* STATE_CONFIG: the registered jurisdictions, keyed by upper-case code.
STATE_CONFIG ==
    [ TN |-> [name |-> "Tennessee",    cleanSlate |-> FALSE, hasAutomaticSealing |-> FALSE],
      PA |-> [name |-> "Pennsylvania", cleanSlate |-> TRUE,  hasAutomaticSealing |-> TRUE],
      NJ |-> [name |-> "New Jersey",   cleanSlate |-> TRUE,  hasAutomaticSealing |-> TRUE] ]

\* loadStatutes / loadProcedures: null for a code STATE_CONFIG does not hold;
\* the data files of a registered jurisdiction are taken to be in place.
loadStatutes(state) ==
    [loaded |-> state \in DOMAIN STATE_CONFIG, jurisdiction |-> state]

\* Math.floor((now - date) / (one year of 365.25 days)); 0 without a date,
\* NaN for an Invalid Date.
calculateYearsSince(date, t) ==
    CASE date.kind = "null"    -> [nan |-> FALSE, n |-> 0]
      [] date.kind = "invalid" -> [nan |-> TRUE,  n |-> 0]
      [] OTHER                 -> [nan |-> FALSE, n |-> (t - date.t) \div Year36525]

\* years >= k in JavaScript: false when years is NaN.
YearsAtLeast(years, k) == ~years.nan /\ years.n >= k

\* `${k - years}` in a template string.
YearsLeftText(years, k) == IF years.nan THEN "NaN" ELSE ToString(k - years.n)

\* sentenceCompletionDate || convictionDate, each parsed when truthy.
DispositionDate(situationData) ==
    LET sentenceCompletionDate == ParseDate(situationData.sentenceCompletionDate)
        convictionDate         == ParseDate(situationData.convictionDate)
    IN  IF sentenceCompletionDate.kind # "null"
        THEN sentenceCompletionDate ELSE convictionDate

\* The derived facts analyzeEligibility hands to the state analyzers.
Context(situationData, t) ==
    LET outcome == IF situationData.outcome = Absent
                   THEN "" ELSE ToLowerCase(situationData.outcome)
    IN  [ chargeType    |-> IF situationData.chargeType = Absent
                            THEN "" ELSE ToLowerCase(situationData.chargeType),
          hasConviction |-> IncludesAny(outcome,
                                {"conviction", "convicted", "guilty", "plea"}),
          wasDismissed  |-> IncludesAny(outcome,
                                {"dismissed", "acquitted", "not guilty",
                                 "nolle prosequi", "withdrawn"}),
          completedDiversion |-> IncludesAny(outcome,
                                {"diversion", "ard", "probation completed",
                                 "program completed"}),
          yearsSinceDisposition |->
              calculateYearsSince(DispositionDate(situationData), t) ]

\* The analysis record as analyzeEligibility first builds it.
AnalysisInit(state) ==
    [ state     |-> state,
      stateName |-> STATE_CONFIG[state].name,
      eligibility |->
          [ status |-> "pending", confidence |-> "medium", waitingPeriod |-> Null,
            waitingPeriodMet |-> "null", reasons |-> <<>>, blockingFactors |-> <<>> ],
      cleanSlate |->
          [ available |-> STATE_CONFIG[state].cleanSlate,
            automaticSealing |-> STATE_CONFIG[state].hasAutomaticSealing,
            eligible |-> FALSE, estimatedTimeline |-> Null ],
      petitionBased |->
          [ available |-> TRUE, eligible |-> FALSE, estimatedTimeline |-> Null ],
      applicableProcedure |-> Null,
      nextSteps       |-> <<>>,
      warnings        |-> <<>>,
      recommendations |-> <<>> ]

\* A blocking factor of the multi-state analyzer (it carries no statute).
Factor(name) == [factor |-> name, statute |-> ""]

\* Clean Slate waiting periods of Pennsylvania, in years.
PACleanSlateYears == 10

PASummaryYears == 5

\* The branch "analysis.eligibility.status = 'pending'" of a Pennsylvania
\* waiting period of k years.
PAWaiting(a, years, k, procedure) ==
    [a EXCEPT !.eligibility.status = "pending",
              !.eligibility.waitingPeriod = YearsLeftText(years, k) \o " more years",
              !.eligibility.waitingPeriodMet = "false",
              !.eligibility.reasons = @ \o
                  <<"Must wait until " \o ToString(k) \o "-year period is complete ("
                    \o YearsLeftText(years, k) \o " more years)">>,
              !.applicableProcedure = procedure]

PAMet(a, k, reason, procedure) ==
    [a EXCEPT !.cleanSlate.eligible = TRUE,
              !.cleanSlate.estimatedTimeline =
                  "Automatic sealing - " \o ToString(k) \o "-year period met",
              !.eligibility.status = "eligible",
              !.eligibility.reasons = @ \o <<reason>>,
              !.applicableProcedure = procedure]

PANextSteps(a) ==
    [a EXCEPT !.nextSteps = @
          \o (IF a.cleanSlate.eligible
              THEN <<"Your record may be automatically sealed - verify status with PA State Police",
                     "Check PAeDocket (ujsportal.pacourts.us) to see if case is sealed">>
              ELSE <<>>)
          \o (IF a.petitionBased.eligible
              THEN <<"File petition for expungement with Court of Common Pleas",
                     "Serve copy on District Attorney">>
              ELSE <<>>),
        !.recommendations = @ \o
          <<"Pennsylvania Clean Slate is FREE - no petition required for automatic sealing">>]

analyzePAEligibility(analysis, context) ==
    LET chargeType == context.chargeType
        years      == context.yearsSinceDisposition
        isDUI        == IncludesAny(chargeType, {"dui", "dwi", "driving under"})
        isViolent    == IncludesAny(chargeType, {"violent", "assault", "robbery"})
        isSexOffense == IncludesAny(chargeType, {"sex", "rape", "molestation"})
        isChildCrime == IncludesAny(chargeType, {"child", "minor"})
        a == IF context.wasDismissed
             THEN [analysis EXCEPT
                      !.cleanSlate.eligible = TRUE,
                      !.cleanSlate.estimatedTimeline = "Automatic sealing - no waiting period",
                      !.eligibility.status = "eligible",
                      !.eligibility.reasons = @ \o
                          <<"Non-conviction records are automatically sealed under Clean Slate">>,
                      !.applicableProcedure = "cleanSlateAutomatic"]
             ELSE IF context.hasConviction
             THEN IF isDUI
                  THEN [analysis EXCEPT
                           !.eligibility.blockingFactors = @ \o <<Factor("DUI Conviction")>>,
                           !.eligibility.status = "limited",
                           !.warnings = @ \o
                               <<"DUI convictions require petition-based expungement and may have limited eligibility">>,
                           !.applicableProcedure = "ardCompletion"]
                  ELSE IF isViolent \/ isSexOffense \/ isChildCrime
                  THEN [analysis EXCEPT
                           !.eligibility.blockingFactors = @ \o <<Factor("Excluded Offense")>>,
                           !.eligibility.status = "ineligible"]
                  ELSE IF IncludesAny(chargeType, {"felony", "indictable"})
                  THEN IF YearsAtLeast(years, PACleanSlateYears)
                       THEN PAMet(analysis, PACleanSlateYears,
                                  "Non-violent felony eligible for Clean Slate after 10 years",
                                  "nonViolentFelony")
                       ELSE PAWaiting(analysis, years, PACleanSlateYears, "nonViolentFelony")
                  ELSE IF Includes(chargeType, "misdemeanor")
                  THEN IF YearsAtLeast(years, PACleanSlateYears)
                       THEN PAMet(analysis, PACleanSlateYears,
                                  "Misdemeanor eligible for Clean Slate after 10 years",
                                  "cleanSlateAutomatic")
                       ELSE PAWaiting(analysis, years, PACleanSlateYears, "cleanSlateAutomatic")
                  ELSE IF Includes(chargeType, "summary")
                  THEN IF YearsAtLeast(years, PASummaryYears)
                       THEN PAMet(analysis, PASummaryYears,
                                  "Summary offense eligible for Clean Slate after 5 years",
                                  "summaryOffense")
                       ELSE PAWaiting(analysis, years, PASummaryYears, "summaryOffense")
                  ELSE analysis
             ELSE IF context.completedDiversion \/ Includes(chargeType, "ard")
             THEN [analysis EXCEPT
                      !.petitionBased.eligible = TRUE,
                      !.petitionBased.estimatedTimeline = "30-60 days after filing",
                      !.eligibility.status = "eligible",
                      !.eligibility.reasons = @ \o
                          <<"ARD/diversion completion is eligible for petition-based expungement">>,
                      !.applicableProcedure = "ardCompletion"]
             ELSE analysis
    IN  PANextSteps(a)

\* Waiting periods of New Jersey, in years.
NJIndictableYears == 10

NJIndictableEarlyYears == 5

NJDisorderlyYears == 5

NJDisorderlyEarlyYears == 4

NJMunicipalYears == 2

NJExcluded ==
    {"murder", "homicide", "kidnapping", "sexual assault", "rape", "robbery",
     "arson", "child porn", "terrorism", "perjury", "official misconduct"}

NJNextSteps(a) ==
    [a EXCEPT !.nextSteps = @
          \o (IF a.cleanSlate.eligible
              THEN <<"Your record may be automatically expunged under Clean Slate - verify with NJ State Police">>
              ELSE <<>>)
          \o (IF a.petitionBased.eligible
              THEN <<"File petition with Superior Court in county where arrest occurred",
                     "Serve County Prosecutor, Attorney General, and State Police",
                     "$75 filing fee required (may be waived for indigent)">>
              ELSE <<>>),
        !.recommendations = @ \o
          <<"New Jersey Clean Slate is FREE - automatic after 10 crime-free years">>]

NJIndictable(analysis, years) ==
    IF YearsAtLeast(years, NJIndictableYears)
    THEN [analysis EXCEPT
             !.cleanSlate.eligible = TRUE,
             !.petitionBased.eligible = TRUE,
             !.cleanSlate.estimatedTimeline = "Automatic - Clean Slate process",
             !.petitionBased.estimatedTimeline = "60-120 days",
             !.eligibility.status = "eligible",
             !.eligibility.reasons = @ \o
                 <<"Eligible for both Clean Slate (automatic) and petition-based expungement">>,
             !.applicableProcedure = "indictableOffense"]
    ELSE IF YearsAtLeast(years, NJIndictableEarlyYears)
    THEN [analysis EXCEPT
             !.petitionBased.eligible = TRUE,
             !.petitionBased.estimatedTimeline = "60-120 days",
             !.eligibility.status = "eligible",
             !.eligibility.reasons = @ \o
                 <<"Eligible for 5-year early pathway expungement">>,
             !.applicableProcedure = "indictableOffense",
             !.warnings = @ \o <<"Early pathway requires showing compelling need">>]
    ELSE [analysis EXCEPT
             !.eligibility.status = "pending",
             !.eligibility.waitingPeriod =
                 YearsLeftText(years, NJIndictableEarlyYears)
                 \o " more years (early pathway) or "
                 \o YearsLeftText(years, NJIndictableYears) \o " more years (standard)",
             !.eligibility.waitingPeriodMet = "false",
             !.applicableProcedure = "indictableOffense"]

NJDisorderly(analysis, years, isDomesticViolence) ==
    LET a == IF YearsAtLeast(years, NJDisorderlyYears)
             THEN [analysis EXCEPT
                      !.cleanSlate.eligible = TRUE,
                      !.petitionBased.eligible = TRUE,
                      !.eligibility.status = "eligible",
                      !.eligibility.reasons = @ \o
                          <<"Disorderly persons offense eligible after 5 years">>,
                      !.applicableProcedure = "disorderlyPersons"]
             ELSE IF YearsAtLeast(years, NJDisorderlyEarlyYears)
             THEN [analysis EXCEPT
                      !.petitionBased.eligible = TRUE,
                      !.eligibility.status = "eligible",
                      !.eligibility.reasons = @ \o <<"Eligible for 4-year early pathway">>,
                      !.applicableProcedure = "disorderlyPersons"]
             ELSE [analysis EXCEPT
                      !.eligibility.status = "pending",
                      !.eligibility.waitingPeriod =
                          YearsLeftText(years, NJDisorderlyYears) \o " more years",
                      !.applicableProcedure = "disorderlyPersons"]
    IN  IF isDomesticViolence
        THEN [a EXCEPT !.eligibility.blockingFactors = @ \o <<Factor("Domestic Violence")>>]
        ELSE a

NJMunicipal(analysis, years) ==
    IF YearsAtLeast(years, NJMunicipalYears)
    THEN [analysis EXCEPT
             !.eligibility.status = "eligible",
             !.petitionBased.eligible = TRUE,
             !.eligibility.reasons = @ \o <<"Municipal ordinance eligible after 2 years">>,
             !.applicableProcedure = "municipalOrdinance"]
    ELSE [analysis EXCEPT
             !.eligibility.status = "pending",
             !.eligibility.waitingPeriod =
                 YearsLeftText(years, NJMunicipalYears) \o " more years",
             !.applicableProcedure = "municipalOrdinance"]

analyzeNJEligibility(analysis, context) ==
    LET chargeType == context.chargeType
        years      == context.yearsSinceDisposition
        isExcluded == IncludesAny(chargeType, NJExcluded)
        isDrugDistribution ==
            IncludesAny(chargeType, {"distribution", "manufacturing", "trafficking"})
        isIndictable == IncludesAny(chargeType, {"felony", "indictable"})
        isDisorderly == IncludesAny(chargeType, {"misdemeanor", "disorderly"})
        isMunicipal  == IncludesAny(chargeType, {"ordinance", "municipal"})
        isDomesticViolence == IncludesAny(chargeType, {"domestic", "dv"})
        a == IF context.wasDismissed
             THEN [analysis EXCEPT
                      !.petitionBased.eligible = TRUE,
                      !.petitionBased.estimatedTimeline =
                          "6-month waiting period, then 30-60 days for petition",
                      !.eligibility.status = "eligible",
                      !.eligibility.reasons = @ \o
                          <<"Dismissed charges eligible for expungement after 6 months">>,
                      !.applicableProcedure = "arrestNoConviction"]
             ELSE IF context.hasConviction
             THEN IF isExcluded
                  THEN [analysis EXCEPT
                           !.eligibility.blockingFactors = @ \o <<Factor("Excluded Offense")>>,
                           !.eligibility.status = "ineligible"]
                  ELSE IF isDrugDistribution
                  THEN [analysis EXCEPT
                           !.eligibility.blockingFactors = @ \o <<Factor("Drug Distribution")>>,
                           !.eligibility.status = "limited",
                           !.warnings = @ \o
                               <<"Drug distribution offenses have very limited expungement eligibility">>]
                  ELSE IF isIndictable THEN NJIndictable(analysis, years)
                  ELSE IF isDisorderly
                  THEN NJDisorderly(analysis, years, isDomesticViolence)
                  ELSE IF isMunicipal THEN NJMunicipal(analysis, years)
                  ELSE analysis
             ELSE IF context.completedDiversion \/ Includes(chargeType, "drug court")
             THEN [analysis EXCEPT
                      !.petitionBased.eligible = TRUE,
                      !.petitionBased.estimatedTimeline = "30-60 days",
                      !.eligibility.status = "eligible",
                      !.eligibility.reasons = @ \o
                          <<"Drug court graduates eligible for immediate expungement">>,
                      !.applicableProcedure = "drugCourtGraduate"]
             ELSE analysis
    IN  NJNextSteps(a)

\* Waiting periods of Tennessee in the multi-state analyzer, in years.
TNFelonyYears == 5

TNMisdemeanorYears == 1

\* The conviction branch of a Tennessee waiting period of k years.
TNConviction(analysis, years, k, reason, timeline, procedure) ==
    IF YearsAtLeast(years, k)
    THEN [analysis EXCEPT
             !.eligibility.status = "eligible",
             !.eligibility.reasons = @ \o <<reason>>,
             !.petitionBased.eligible = TRUE,
             !.petitionBased.estimatedTimeline = timeline,
             !.applicableProcedure = procedure]
    ELSE [analysis EXCEPT
             !.eligibility.status = "pending",
             !.eligibility.waitingPeriod = YearsLeftText(years, k) \o " more years",
             !.applicableProcedure = procedure]

analyzeTNEligibility(analysis, situationData, context) ==
    LET chargeType == context.chargeType
        years      == context.yearsSinceDisposition
        isDUI == IncludesAny(chargeType, {"dui", "dwi"})
        isDomesticAssault ==
            Includes(chargeType, "domestic") /\ Includes(chargeType, "assault")
        isSexOffense  == IncludesAny(chargeType, {"sex", "rape"})
        isFelony      == Includes(chargeType, "felony")
        isMisdemeanor == Includes(chargeType, "misdemeanor")
        a == IF context.wasDismissed
             THEN [analysis EXCEPT
                      !.eligibility.status = "eligible",
                      !.eligibility.reasons = @ \o
                          <<"Dismissed or acquitted charges are immediately eligible">>,
                      !.petitionBased.eligible = TRUE,
                      !.petitionBased.estimatedTimeline = "30-60 days",
                      !.applicableProcedure = "dismissedCharges"]
             ELSE IF context.completedDiversion
             THEN [analysis EXCEPT
                      !.eligibility.status = "eligible",
                      !.eligibility.reasons = @ \o
                          <<"Completed diversion is eligible for expungement">>,
                      !.petitionBased.eligible = TRUE,
                      !.petitionBased.estimatedTimeline = "30-60 days",
                      !.applicableProcedure =
                          IF situationData.diversionType # Absent
                             /\ Includes(situationData.diversionType, "judicial")
                          THEN "judicialDiversion" ELSE "pretrialDiversion"]
             ELSE IF context.hasConviction
             THEN IF isDUI \/ isDomesticAssault \/ isSexOffense
                  THEN [analysis EXCEPT
                           !.eligibility.blockingFactors = @ \o <<Factor("Ineligible Offense")>>,
                           !.eligibility.status = "ineligible"]
                  ELSE IF isFelony
                  THEN TNConviction(analysis, years, TNFelonyYears,
                                    "Non-violent felony eligible after 5 years",
                                    "90-120 days", "felonyConviction")
                  ELSE IF isMisdemeanor
                  THEN TNConviction(analysis, years, TNMisdemeanorYears,
                                    "Misdemeanor eligible after 1 year",
                                    "60-90 days", "misdemeanorConviction")
                  ELSE analysis
             ELSE analysis
    IN  IF a.petitionBased.eligible
        THEN [a EXCEPT !.nextSteps = @ \o
                 <<"File petition with convicting court",
                   "Serve District Attorney (30 days to object)">>]
        ELSE a

\* What analyzeEligibility returns for a jurisdiction without data.
Unsupported(state) ==
    [ eligible |-> FALSE,
      error |-> "State " \o state \o " not supported or data not available" ]

\* analyzeEligibility(state, situationData), run when the clock reads t.
analyzeEligibility(state, situationData, t) ==
    IF ~loadStatutes(state).loaded
    THEN Unsupported(state)
    ELSE LET analysis == AnalysisInit(state)
             context  == Context(situationData, t)
         IN  CASE state = "PA" -> analyzePAEligibility(analysis, context)
               [] state = "NJ" -> analyzeNJEligibility(analysis, context)
               [] state = "TN" -> analyzeTNEligibility(analysis, situationData, context)
               [] OTHER -> [analysis EXCEPT
                               !.eligibility.status = "unknown",
                               !.warnings = @ \o
                                   <<"State " \o state \o " analysis not implemented">>]

-----------------------------------------------------------------------------
(* Reads of the policy files                                               *)

\* The count of reads is followed up to this number.
MaxLoads == 2

\* The count after n more reads of the policy files.
Read(count, n) == IF count + n > MaxLoads THEN MaxLoads ELSE count + n

\* loadStatutes and loadProcedures of src/unnamed/part_000 read and parse
\* their file on every call for a registered state, and read nothing for
\* any other; analyzeEligibility calls each of them once.
LoadsOfAnalyzeEligibility(state) == IF loadStatutes(state).loaded THEN 1 ELSE 0

\* generatePacket of src/unnamed/part_000 calls the loaders itself and then
\* analyzeEligibility.
LoadsOfGeneratePacket(state) ==
    (IF loadStatutes(state).loaded THEN 1 ELSE 0) + LoadsOfAnalyzeEligibility(state)

-----------------------------------------------------------------------------
(* Criminal-relief requests and the clock                                  *)

\* The latest calendar day a request's date may name (day 0 is the epoch).
MaxDay == 1

\* The date values a request may carry.
DateValues == {NoDate, BadDate} \cup {IsoDate(d) : d \in 0..MaxDay}

\* The clock readings of the model: the epoch, and for each waiting period
\* the last tick before its end and the first tick after it, in the year
\* length of the analyzer that applies it.
\* Five calendar years hold one or two leap days; four years and eleven
\* months are a 30-day month less than the shorter of the two.
FiveCalendarYears == {1826 * TicksPerDay, 1827 * TicksPerDay}

FourYearsElevenMonths == {1796 * TicksPerDay}

ClockPoints ==
    {0}
    \cup FiveCalendarYears \cup FourYearsElevenMonths
    \cup UNION { {k * Year365 - 1, k * Year365}
                 : k \in {MisdemeanorWaitYears, FelonyWaitYears} }
    \cup UNION { {k * Year36525 - 1, k * Year36525}
                 : k \in {TNMisdemeanorYears, TNFelonyYears, PACleanSlateYears} }

OutcomeTexts ==
    {Absent, "Dismissed", "not guilty", "diversion", "Convicted", "nolle prosequi"}

\* The charge type and charge description of a conviction.
ChargeCases ==
    { <<Absent, Absent>>, <<"Felony", Absent>>, <<"misdemeanor", Absent>>,
      <<"felony dui", Absent>>, <<"Felony", "DUI">>,
      <<"misdemeanor domestic violence", Absent>> }

\* The two entry points and the jurisdiction codes sent to them.
Targets ==
    {[target |-> "tn", state |-> "TN"]}
    \cup {[target |-> "multi", state |-> s] : s \in {"TN", "PA", "NJ", "MS"}}

BaseSituation ==
    [ chargeType |-> "Felony", chargeDescription |-> Absent, outcome |-> "Convicted",
      county |-> Absent, diversionType |-> Absent,
      convictionDate |-> NoDate, sentenceCompletionDate |-> IsoDate(0),
      allFinesPaid |-> TRUE, probationCompleted |-> TRUE,
      diversionCompleted |-> FALSE, hasPendingCharges |-> FALSE,
      priorExpungements |-> 0 ]

\* Every disposition, with and without pending charges and completed diversion.
DispositionSituations ==
    { [BaseSituation EXCEPT !.outcome = o, !.hasPendingCharges = p,
                            !.diversionCompleted = d]
      : o \in OutcomeTexts, p \in BOOLEAN, d \in BOOLEAN }

\* Every conviction: charge type, description, date and obligation flags.
ConvictionSituations ==
    { [BaseSituation EXCEPT !.chargeType = c[1], !.chargeDescription = c[2],
                            !.sentenceCompletionDate = s, !.hasPendingCharges = p,
                            !.allFinesPaid = f, !.probationCompleted = b]
      : c \in ChargeCases, s \in DateValues,
        p \in BOOLEAN, f \in BOOLEAN, b \in BOOLEAN }

Situations == DispositionSituations \cup ConvictionSituations

Requests ==
    { [target |-> g.target, state |-> g.state, situation |-> s]
      : g \in Targets, s \in Situations }

\* The record of one evaluation: when it ran and what it returned.
Evaluation(t, out) == [kind |-> "evaluation", at |-> t, out |-> out]

\* The eligibility part of a verdict; the multi-state analyzer returns a bare
\* error record for a jurisdiction it has no data for.
HasEligibility(out) == "eligibility" \in DOMAIN out

-----------------------------------------------------------------------------
(* Actions of the criminal-relief entry points                             *)

InitCrim ==
    /\ now = 0
    /\ request \in Requests
    /\ verdict = None
    /\ prev = None
    /\ evRequest = None
    /\ evPolicy = None
    /\ evTN = None
    /\ evMulti = None
    /\ loads = 0

\* A call of the Tennessee analyzer's analyzeSituation at clock reading t.
AnalyzeTN ==
    /\ request # None
    /\ request.target = "tn"
    /\ \E t \in ClockPoints :
          /\ t >= now
          /\ now' = t
          /\ verdict' = Evaluation(t, analyzeSituationTN(request.situation, t))
    /\ prev' = verdict
    /\ UNCHANGED <<request, evVars, loads>>

\* A call of the multi-state analyzer's analyzeEligibility at clock reading t.
AnalyzeMulti ==
    /\ request # None
    /\ request.target = "multi"
    /\ \E t \in ClockPoints :
          /\ t >= now
          /\ now' = t
          /\ verdict' = Evaluation(t, analyzeEligibility(request.state,
                                                        request.situation, t))
    /\ prev' = verdict
    /\ loads' = Read(loads, LoadsOfAnalyzeEligibility(request.state))
    /\ UNCHANGED <<request, evVars>>

NextCrim == AnalyzeTN \/ AnalyzeMulti

SpecCrim == InitCrim /\ [][NextCrim]_vars

-----------------------------------------------------------------------------
(* Criminal-relief claims                                                  *)

\* The status of an evaluation's verdict.
Status(e) == e.out.eligibility.status

\* Both entry points read the request as a conviction.
IsConviction(situation) ==
    /\ determineOutcome(situation) = "convicted"
    /\ Context(situation, 0).hasConviction
    /\ ~Context(situation, 0).wasDismissed
    /\ ~Context(situation, 0).completedDiversion

\* The verdict names no blocking offense.
NoBlockingOffense(e) == e.out.eligibility.blockingFactors = <<>>

\* C1. Pending-charge absolutism: every verdict of a supported jurisdiction
\* for a request with hasPendingCharges = true has status ineligible,
\* whatever the other fields are.
C1_PendingChargeAbsolutism ==
    (/\ verdict # None
     /\ HasEligibility(verdict.out)
     /\ request.situation.hasPendingCharges)
    => Status(verdict) = "ineligible"

\* C2. Determinism: two evaluations of the same request, run at any two
\* moments, return the same verdict record.
C2_Determinism ==
    (prev # None /\ verdict # None) => prev.out = verdict.out

\* C3. Waiting-period monotonicity: with the request held fixed, once the
\* status at some elapsed time is eligible or ineligible, the status at every
\* later time is not pending.
C3_WaitingPeriodMonotone ==
    (/\ prev # None
     /\ verdict # None
     /\ HasEligibility(verdict.out)
     /\ IsConviction(request.situation)
     /\ prev.at < verdict.at
     /\ Status(prev) \in {"eligible", "ineligible"})
    => Status(verdict) # "pending"

\* C3 witness: a conviction found eligible, evaluated again at a later time.
C3_Witness ==
    /\ prev # None
    /\ verdict # None
    /\ HasEligibility(verdict.out)
    /\ IsConviction(request.situation)
    /\ prev.at < verdict.at
    /\ Status(prev) = "eligible"
    /\ Status(verdict) = "eligible"

\* The waiting period, in ticks, that the entry point of a request applies to
\* a felony or misdemeanor conviction.
ThresholdTicks(r) ==
    LET felony == Includes(ToLowerCase(OrEmpty(r.situation.chargeType)), "felony")
    IN  CASE r.target = "tn" ->
               (IF felony THEN FelonyWaitYears ELSE MisdemeanorWaitYears) * Year365
          [] r.state = "TN" ->
               (IF felony THEN TNFelonyYears ELSE TNMisdemeanorYears) * Year36525
          [] r.state = "PA" -> PACleanSlateYears * Year36525
          [] OTHER ->
               (IF felony THEN NJIndictableEarlyYears ELSE NJDisorderlyEarlyYears)
               * Year36525

\* C4. For a felony or misdemeanor conviction that matches no blocking
\* offense, waitingPeriodMet is false at every elapsed time below the
\* category's threshold and true at every elapsed time at or above it, in the
\* Tennessee analyzer and in the multi-state analyzer.
C4_WaitingPeriodMetFlips ==
    (/\ verdict # None
     /\ HasEligibility(verdict.out)
     /\ IsConviction(request.situation)
     /\ NoBlockingOffense(verdict)
     /\ ~request.situation.hasPendingCharges
     /\ IncludesAny(ToLowerCase(OrEmpty(request.situation.chargeType)),
                    {"felony", "misdemeanor"})
     /\ request.situation.sentenceCompletionDate.kind = "iso")
    => verdict.out.eligibility.waitingPeriodMet =
          JsBool(verdict.at - ParseDate(request.situation.sentenceCompletionDate).t
                 >= ThresholdTicks(request))

-----------------------------------------------------------------------------
(* Numbers that may be NaN, and boolean flags as the caller sends them     *)

Num(n) == [kind |-> "num", n |-> n]

NaN == [kind |-> "nan", n |-> 0]

\* A field of calculationDetails that was not assigned.
Unset == [kind |-> "unset", n |-> 0]

\* a < b, a <= b and a > b in JavaScript: false when a is NaN.
NumLT_OrEqual(a, b) == a.kind = "num" /\ a.n <= b

NumLT(a, b) == a.kind = "num" /\ a.n < b

NumLE(a, b) == a.kind = "num" /\ a.n <= b

NumGT(a, b) == a.kind = "num" /\ a.n > b

\* Math.floor(x / d) and Math.ceil(x / d) for d > 0.
FloorDiv(x, d) == x \div d

CeilDiv(x, d) == -((-x) \div d)

\* The values of a flag: the booleans, the string 'true', or nothing.
BoolTrue == "true:boolean"

BoolFalse == "false:boolean"

\* flag === true || flag === 'true'
IsTrue(flag) == flag = BoolTrue \/ flag = "true"

\* Truthiness of a date field: any non-empty string.
HasDate(f) == f.kind # "absent"

\* new Date(f) for a truthy field f, as a time value.
TimeOf(f) == IF f.kind = "iso" THEN Num(f.day * TicksPerDay) ELSE NaN

-----------------------------------------------------------------------------
(* Tennessee eviction analyzer (src/lib/eviction-situation-analyzer.js)    *)

\* The keyword sets of determineEvictionType, in the order it tests them.
NonpaymentKeywords == {"non-payment", "nonpayment", "rent", "unpaid", "behind on rent"}

LeaseViolationKeywords ==
    {"lease violation", "violation", "breach", "unauthorized", "pet", "guest"}

HoldoverKeywords ==
    {"holdover", "expired", "end of lease", "staying after", "month to month"}

IllegalActivityKeywords == {"criminal", "illegal", "drug", "crime", "nuisance"}

\* Days of notice the Tennessee analyzer requires for each eviction type.
NonpaymentNoticeDays == 14

LeaseViolationNoticeDays == 30

HoldoverNoticeDays == 30

IllegalActivityNoticeDays == 3

\* The length of the appeal window the Tennessee analyzer applies, in days.
AppealWindowDays == 10

EvType(type, displayName, noticeRequired) ==
    [type |-> type, displayName |-> displayName, noticeRequired |-> noticeRequired]

\* The same tests with the illegal-activity rule ahead of the holdover rule.
determineEvictionType_Reordered(data) ==
    LET lowerReasons == ToLowerCase(OrEmpty(data.evictionReason))
    IN  IF IncludesAny(lowerReasons, NonpaymentKeywords)
        THEN EvType("nonpayment", "Non-Payment of Rent", NonpaymentNoticeDays)
        ELSE IF IncludesAny(lowerReasons, LeaseViolationKeywords)
        THEN EvType("leaseViolation", "Lease Violation", LeaseViolationNoticeDays)
        ELSE IF IncludesAny(lowerReasons, IllegalActivityKeywords)
        THEN EvType("illegalActivity", "Criminal/Illegal Activity",
                    IllegalActivityNoticeDays)
        ELSE IF IncludesAny(lowerReasons, HoldoverKeywords)
        THEN EvType("holdover", "Holdover Tenant", HoldoverNoticeDays)
        ELSE EvType("nonpayment", "Non-Payment of Rent (Assumed)", NonpaymentNoticeDays)

determineEvictionType(data) ==
    LET lowerReasons == ToLowerCase(OrEmpty(data.evictionReason))
    IN  IF IncludesAny(lowerReasons, NonpaymentKeywords)
        THEN EvType("nonpayment", "Non-Payment of Rent", NonpaymentNoticeDays)
        ELSE IF IncludesAny(lowerReasons, LeaseViolationKeywords)
        THEN EvType("leaseViolation", "Lease Violation", LeaseViolationNoticeDays)
        ELSE IF IncludesAny(lowerReasons, HoldoverKeywords)
        THEN EvType("holdover", "Holdover Tenant", HoldoverNoticeDays)
        ELSE IF IncludesAny(lowerReasons, IllegalActivityKeywords)
        THEN EvType("illegalActivity", "Criminal/Illegal Activity",
                    IllegalActivityNoticeDays)
        ELSE EvType("nonpayment", "Non-Payment of Rent (Assumed)", NonpaymentNoticeDays)

Issue(type, severity) == [type |-> type, severity |-> severity]

\* Math.floor((filingDate - noticeDate) / one day).
DaysBetween(noticeDate, filingDate) ==
    IF TimeOf(noticeDate).kind = "num" /\ TimeOf(filingDate).kind = "num"
    THEN Num(FloorDiv(TimeOf(filingDate).n - TimeOf(noticeDate).n, TicksPerDay))
    ELSE NaN

\* Math.ceil((courtDate - today) / one day).
DaysUntilCourtCeil(courtDate, t) ==
    IF TimeOf(courtDate).kind = "num"
    THEN Num(CeilDiv(TimeOf(courtDate).n - t, TicksPerDay))
    ELSE NaN

\* Math.floor((today - judgmentDate) / one day); without a judgment date
\* the judgment is taken to be of this instant.
DaysSinceJudgment(judgmentDate, t) ==
    IF ~HasDate(judgmentDate) THEN Num(0)
    ELSE IF TimeOf(judgmentDate).kind = "num"
    THEN Num(FloorDiv(t - TimeOf(judgmentDate).n, TicksPerDay))
    ELSE NaN

\* Math.max(0, window - daysSinceJudgment).
DaysLeftToAppeal(daysSinceJudgment, window) ==
    IF daysSinceJudgment.kind = "num"
    THEN Num(IF window - daysSinceJudgment.n > 0
             THEN window - daysSinceJudgment.n ELSE 0)
    ELSE NaN

analyzeTimeline(data, t) ==
    LET evictionType == determineEvictionType(data)
        checkNotice  == HasDate(data.noticeDate) /\ HasDate(data.filingDate)
        daysBetween  == DaysBetween(data.noticeDate, data.filingDate)
        insufficient == checkNotice /\ NumLT(daysBetween, evictionType.noticeRequired)
        checkCourt   == HasDate(data.courtDate)
        daysUntilCourt == DaysUntilCourtCeil(data.courtDate, t)
        judgment     == IsTrue(data.judgmentReceived)
        daysSinceJudgment == DaysSinceJudgment(data.judgmentDate, t)
        daysLeftToAppeal  == DaysLeftToAppeal(daysSinceJudgment, AppealWindowDays)
    IN  [ noticeGiven |-> IsTrue(data.noticeReceived),
          noticeDate  |-> data.noticeDate,
          courtDate   |-> data.courtDate,
          filingDate  |-> data.filingDate,
          issues |->
              (IF insufficient THEN <<Issue("insufficient_notice", "high")>> ELSE <<>>)
              \o (IF ~checkCourt THEN <<>>
                  ELSE IF NumLE(daysUntilCourt, 0)
                  THEN <<Issue("past_court_date", "critical")>>
                  ELSE IF NumLE(daysUntilCourt, 3)
                  THEN <<Issue("urgent_court_date", "critical")>>
                  ELSE IF NumLE(daysUntilCourt, 7)
                  THEN <<Issue("upcoming_court_date", "high")>>
                  ELSE <<>>)
              \o (IF ~judgment THEN <<>>
                  ELSE IF NumGT(daysLeftToAppeal, 0)
                  THEN <<Issue("appeal_deadline", "critical")>>
                  ELSE <<Issue("appeal_deadline_passed", "critical")>>),
          compliant |-> ~insufficient,
          calculationDetails |->
              [ daysBetweenNoticeAndFiling |-> IF checkNotice THEN daysBetween ELSE Unset,
                requiredDays      |-> IF checkNotice
                                      THEN Num(evictionType.noticeRequired) ELSE Unset,
                daysUntilCourt    |-> IF checkCourt THEN daysUntilCourt ELSE Unset,
                daysSinceJudgment |-> IF judgment THEN daysSinceJudgment ELSE Unset,
                daysLeftToAppeal  |-> IF judgment THEN daysLeftToAppeal ELSE Unset ] ]

\* The ids of the notice defenses of the four eviction types.
ImproperNoticeIds ==
    {"improper_notice", "improper_notice_30", "improper_termination_notice",
     "improper_3_day_notice"}

Defense(id, strength) == [id |-> id, strength |-> strength]

mapProcedureDefense(procedureDefense, data) ==
    LET id == procedureDefense.id
        strength ==
            IF id \in ImproperNoticeIds
            THEN IF ~IsTrue(data.noticeReceived) THEN "strong" ELSE "potential"
            ELSE IF id = "payment_made"
            THEN IF IsTrue(data.paymentMade) THEN "strong" ELSE "potential"
            ELSE IF id = "habitability"
            THEN IF data.propertyCondition \in {"poor", "uninhabitable"}
                 THEN "moderate" ELSE "potential"
            ELSE IF id = "retaliation"
            THEN IF IsTrue(data.recentComplaint) THEN "moderate" ELSE "potential"
            ELSE IF id = "violation_cured"
            THEN IF IsTrue(data.violationCured) THEN "strong" ELSE "potential"
            ELSE IF id = "no_violation" THEN "potential"
            ELSE IF id = "new_tenancy_created"
            THEN IF IsTrue(data.rentAcceptedAfterLeaseEnd) THEN "moderate" ELSE "potential"
            ELSE IF id = "lack_of_knowledge"
            THEN IF IsTrue(data.tenantUnaware) THEN "moderate" ELSE "potential"
            ELSE IF id = "prompt_action"
            THEN IF IsTrue(data.reportedActivity) THEN "moderate" ELSE "potential"
            ELSE "potential"
    IN  Defense(id, strength)

addUniversalDefenses(defenses, data) ==
    defenses
    \o (IF IsTrue(data.partialPaymentAccepted)
        THEN <<Defense("partial_payment_acceptance", "moderate")>> ELSE <<>>)
    \o (IF IsTrue(data.locksChanged) \/ IsTrue(data.utilitiesShutOff)
        THEN <<Defense("self_help_eviction", "strong")>> ELSE <<>>)

\* evictionType.procedures?.defenseOptions || [] for the policy in force.
ProcedureDefenses(policy, type) ==
    IF type \in DOMAIN policy.defenseStrategies
    THEN policy.defenseStrategies[type].defenseOptions
    ELSE <<>>

identifyDefenses(data, evictionType, policy) ==
    LET procedureDefenses == ProcedureDefenses(policy, evictionType.type)
    IN  addUniversalDefenses(
            [i \in 1..Len(procedureDefenses) |->
                mapProcedureDefense(procedureDefenses[i], data)],
            data)

\* strengthOrder[strength] || 4
StrengthOrder(strength) ==
    IF strength = "strong" THEN 1
    ELSE IF strength = "moderate" THEN 2
    ELSE IF strength = "potential" THEN 3
    ELSE 4

\* Array.prototype.sort is stable: an element is placed behind every element
\* that does not compare greater than it.
RECURSIVE SortedInsert(_, _)
SortedInsert(sorted, d) ==
    IF sorted = <<>> THEN <<d>>
    ELSE IF StrengthOrder(sorted[Len(sorted)].strength) - StrengthOrder(d.strength) <= 0
    THEN Append(sorted, d)
    ELSE Append(SortedInsert(SubSeq(sorted, 1, Len(sorted) - 1), d),
                sorted[Len(sorted)])

RECURSIVE prioritizeDefenses(_)
prioritizeDefenses(defenses) ==
    IF defenses = <<>> THEN <<>>
    ELSE SortedInsert(prioritizeDefenses(SubSeq(defenses, 1, Len(defenses) - 1)),
                      defenses[Len(defenses)])

Step(priority, action) == [priority |-> priority, action |-> action]

generateNextStepsTN(data, analysis) ==
    LET details == analysis.timelineAnalysis.calculationDetails
    IN  (IF analysis.urgencyLevel = "critical" /\ IsTrue(data.judgmentReceived)
            /\ NumGT(details.daysLeftToAppeal, 0)
         THEN <<Step("critical", "File appeal immediately")>> ELSE <<>>)
        \o (IF HasDate(data.courtDate) /\ NumGT(details.daysUntilCourt, 0)
            THEN <<Step("critical", "Attend court hearing")>> ELSE <<>>)
        \o <<Step("high", "Gather documentation"),
             Step("high", "Contact legal aid organization")>>
        \o (IF Len(analysis.recommendedDefenses) > 0
            THEN <<Step("high", "Prepare defense: " \o analysis.recommendedDefenses[1].id)>>
            ELSE <<>>)
        \o (IF HasDate(data.courtDate) /\ NumGT(details.daysUntilCourt, 3)
            THEN <<Step("medium", "Consider filing written answer")>> ELSE <<>>)

determineUrgency(data, t) ==
    IF IsTrue(data.judgmentReceived) THEN "critical"
    ELSE IF ~HasDate(data.courtDate) THEN "standard"
    ELSE LET daysUntilCourt == DaysUntilCourtCeil(data.courtDate, t)
         IN  IF NumLE(daysUntilCourt, 3) THEN "critical"
             ELSE IF NumLE(daysUntilCourt, 7) THEN "urgent"
             ELSE IF NumLE(daysUntilCourt, 14) THEN "elevated"
             ELSE "standard"

analyzeSituation(situationData, policy, t) ==
    LET evictionType == determineEvictionType(situationData)
        timelineAnalysis == analyzeTimeline(situationData, t)
        defenses == identifyDefenses(situationData, evictionType, policy)
        recommendedDefenses == prioritizeDefenses(defenses)
        nextSteps ==
            generateNextStepsTN(situationData,
                [ timelineAnalysis    |-> timelineAnalysis,
                  recommendedDefenses |-> recommendedDefenses,
                  urgencyLevel        |-> "standard" ])
    IN  [ kind                |-> "analysis",
          timestamp           |-> ToISOString(t),
          evictionType        |-> evictionType,
          timelineAnalysis    |-> timelineAnalysis,
          defenses            |-> defenses,
          recommendedDefenses |-> recommendedDefenses,
          nextSteps           |-> nextSteps,
          urgencyLevel        |-> determineUrgency(situationData, t),
          county              |-> IF Truthy(situationData.county)
                                  THEN situationData.county ELSE "unknown" ]

\* generatePacket of src/lib/eviction-packet-generator.js: the packet's
\* defenses are the prioritized list.
generatePacketTN(situationData, policy, t) ==
    LET situationAnalysis == analyzeSituation(situationData, policy, t)
    IN  [ kind              |-> "packet",
          generatedAt       |-> ToISOString(t),
          situationAnalysis |-> situationAnalysis,
          evictionType      |-> situationAnalysis.evictionType,
          timelineAnalysis  |-> situationAnalysis.timelineAnalysis,
          defenses          |-> situationAnalysis.recommendedDefenses ]

-----------------------------------------------------------------------------
(* Multi-state eviction generator (src/unnamed/part_001)                   *)

\* A notice period of STATE_CONFIG: a number of days or a free text.
Days(n) == [kind |-> "days", n |-> n, text |-> ""]

NoticeText(text) == [kind |-> "text", n |-> 0, text |-> text]

EV_STATE_CONFIG ==
    [ tn |-> [ name |-> "Tennessee",
               noticePeriods |-> [ nonpayment      |-> Days(14),
                                   leaseViolation  |-> Days(30),
                                   holdover        |-> Days(30),
                                   illegalActivity |-> Days(3) ],
               appealDays |-> 10 ],
      pa |-> [ name |-> "Pennsylvania",
               noticePeriods |-> [ nonpayment     |-> Days(10),
                                   leaseViolation |-> Days(15),
                                   holdover       |-> Days(30) ],
               appealDays |-> 30 ],
      nj |-> [ name |-> "New Jersey",
               noticePeriods |->
                   [ nonpayment     |-> Days(30),
                     leaseViolation |-> NoticeText("Notice to Cease + Notice to Quit"),
                     holdover       |-> Days(30) ],
               appealDays |-> 45 ],
      ms |-> [ name |-> "Mississippi",
               noticePeriods |-> [ nonpayment     |-> Days(3),
                                   leaseViolation |-> Days(30),
                                   holdover       |-> Days(30) ],
               appealDays |-> 5 ] ]

\* (situationData.state || 'tn').toLowerCase()
StateOf(situationData) ==
    ToLowerCase(IF Truthy(situationData.state) THEN situationData.state ELSE "tn")

\* loadStateData throws for a state without a configuration.
loadStateData(state) == [supported |-> ToLowerCase(state) \in DOMAIN EV_STATE_CONFIG]

\* The keyword sets of the generator's determineEvictionType, in test order.
NonpaymentKeywordsMulti == {"non-payment", "nonpayment", "rent"}

LeaseViolationKeywordsMulti == {"violation", "breach"}

HoldoverKeywordsMulti == {"holdover", "expired", "end of lease"}

IllegalActivityKeywordsMulti == {"illegal", "criminal", "drug"}

\* config.noticePeriods.illegalActivity || 3
IllegalActivityNotice(config) ==
    IF "illegalActivity" \in DOMAIN config.noticePeriods
    THEN config.noticePeriods.illegalActivity
    ELSE Days(3)

\* The same tests with the holdover category as the fallback.
determineEvictionTypeMulti_HoldoverDefault(reason, config) ==
    IF IncludesAny(reason, NonpaymentKeywordsMulti)
    THEN EvType("nonpayment", "Non-Payment of Rent", config.noticePeriods.nonpayment)
    ELSE IF IncludesAny(reason, LeaseViolationKeywordsMulti)
    THEN EvType("leaseViolation", "Lease Violation", config.noticePeriods.leaseViolation)
    ELSE IF IncludesAny(reason, HoldoverKeywordsMulti)
    THEN EvType("holdover", "Holdover Tenant", config.noticePeriods.holdover)
    ELSE IF IncludesAny(reason, IllegalActivityKeywordsMulti)
    THEN EvType("illegalActivity", "Criminal/Illegal Activity",
                IllegalActivityNotice(config))
    ELSE EvType("holdover", "Holdover Tenant", config.noticePeriods.holdover)

determineEvictionTypeMulti(reason, config) ==
    IF IncludesAny(reason, NonpaymentKeywordsMulti)
    THEN EvType("nonpayment", "Non-Payment of Rent", config.noticePeriods.nonpayment)
    ELSE IF IncludesAny(reason, LeaseViolationKeywordsMulti)
    THEN EvType("leaseViolation", "Lease Violation", config.noticePeriods.leaseViolation)
    ELSE IF IncludesAny(reason, HoldoverKeywordsMulti)
    THEN EvType("holdover", "Holdover Tenant", config.noticePeriods.holdover)
    ELSE IF IncludesAny(reason, IllegalActivityKeywordsMulti)
    THEN EvType("illegalActivity", "Criminal/Illegal Activity",
                IllegalActivityNotice(config))
    ELSE EvType("nonpayment", "Non-Payment of Rent", config.noticePeriods.nonpayment)

\* (situationData.evictionReason || situationData.reason || '').toLowerCase()
ReasonOf(situationData) ==
    ToLowerCase(IF Truthy(situationData.evictionReason) THEN situationData.evictionReason
                ELSE OrEmpty(situationData.reason))

\* Math.floor((courtDate - today) / one day).
DaysUntilCourtFloor(courtDate, t) ==
    IF TimeOf(courtDate).kind = "num"
    THEN Num(FloorDiv(TimeOf(courtDate).n - t, TicksPerDay))
    ELSE NaN

UrgencyMulti(situationData, t) ==
    IF ~HasDate(situationData.courtDate) THEN "standard"
    ELSE LET daysUntilCourt == DaysUntilCourtFloor(situationData.courtDate, t)
         IN  IF NumLE(daysUntilCourt, 3) THEN "critical"
             ELSE IF NumLE(daysUntilCourt, 7) THEN "urgent"
             ELSE IF NumLE(daysUntilCourt, 14) THEN "elevated"
             ELSE "standard"

\* list.slice(0, 5)
MaxRecommended == 5

Slice(list) == SubSeq(list, 1, IF Len(list) < MaxRecommended THEN Len(list) ELSE MaxRecommended)

\* name.toLowerCase().replace(/\s+/g, '_')
RECURSIVE Underscored(_)
Underscored(text) ==
    IF Len(text) = 0 THEN ""
    ELSE IF SubSeq(text, 1, 1) # " " THEN SubSeq(text, 1, 1) \o Underscored(SubSeq(text, 2, Len(text)))
    ELSE IF Len(text) > 1 /\ SubSeq(text, 2, 2) = " "
    THEN Underscored(SubSeq(text, 2, Len(text)))
    ELSE "_" \o Underscored(SubSeq(text, 2, Len(text)))

RecommendedDefensesMulti(policy, evictionTypeKey) ==
    IF evictionTypeKey \in DOMAIN policy.defenseStrategies
    THEN LET defenseOptions == Slice(policy.defenseStrategies[evictionTypeKey].defenseOptions)
         IN  [i \in 1..Len(defenseOptions) |->
                 Defense(defenseOptions[i].id,
                         IF Truthy(defenseOptions[i].strength)
                         THEN defenseOptions[i].strength ELSE "potential")]
    ELSE IF evictionTypeKey \in DOMAIN policy.statuteStrategies
    THEN LET defenses == Slice(policy.statuteStrategies[evictionTypeKey].defenses)
         IN  [i \in 1..Len(defenses) |->
                 Defense(Underscored(ToLowerCase(defenses[i])), "potential")]
    ELSE <<>>

generateNextStepsMulti(situationData, urgencyLevel, state, config) ==
    <<Step("high", "Contact Legal Aid")>>
    \o (IF state = "nj" THEN <<Step("high", "Document Protected Activities")>> ELSE <<>>)
    \o (IF config.noticePeriods.nonpayment.n <= 3
        THEN <<Step("critical", "Act Immediately")>> ELSE <<>>)
    \o <<Step("high", "Gather Documentation"), Step("high", "Attend Court Hearing")>>

analyzeSituationForState(situationData, state, policy, t) ==
    LET config == EV_STATE_CONFIG[state]
        evictionType == determineEvictionTypeMulti(ReasonOf(situationData), config)
        urgencyLevel == UrgencyMulti(situationData, t)
    IN  [ evictionType        |-> evictionType,
          timelineAnalysis    |-> [ issues |-> <<>>,
                                    noticeGiven |-> HasDate(situationData.noticeDate) ],
          urgencyLevel        |-> urgencyLevel,
          recommendedDefenses |-> RecommendedDefensesMulti(policy, evictionType.type),
          nextSteps           |-> generateNextStepsMulti(situationData, urgencyLevel,
                                                         state, config) ]

generatePacket(situationData, policy, t) ==
    LET state == StateOf(situationData)
    IN  IF ~loadStateData(state).supported
        THEN [kind |-> "error", message |-> "Unsupported state: " \o state]
        ELSE LET situationAnalysis ==
                     analyzeSituationForState(situationData, state, policy, t)
             IN  [ kind              |-> "packet",
                   generatedAt       |-> ToISOString(t),
                   state             |-> state,
                   situationAnalysis |-> situationAnalysis,
                   evictionType      |-> situationAnalysis.evictionType,
                   timelineAnalysis  |-> situationAnalysis.timelineAnalysis,
                   defenses          |-> situationAnalysis.recommendedDefenses ]

\* loadStateData reads and parses both files on every call for a configured
\* state, and throws before reading for any other.
LoadsOfLoadStateData(state) == IF loadStateData(state).supported THEN 1 ELSE 0

-----------------------------------------------------------------------------
(* Eviction requests, policies and the clock                               *)

EvTypes == {"nonpayment", "leaseViolation", "holdover", "illegalActivity"}

\* The longest list of policy options the generic policies declare.
MaxOptions == 2

Opt(id, strength) == [id |-> id, strength |-> strength]

\* Policy entries: some declare a strength, some do not.
OptionPool ==
    { Opt("improper_notice", Absent), Opt("payment_made", "strong"),
      Opt("habitability", "moderate") }

OptionLists == UNION { [1..n -> OptionPool] : n \in 0..MaxOptions }

\* A policy file laid out with one list of options per eviction type.
LayoutOptions(type) ==
    CASE type = "nonpayment" ->
             << Opt("improper_notice", Absent), Opt("payment_made", Absent),
                Opt("habitability", Absent), Opt("retaliation", Absent),
                Opt("payment_plan", Absent), Opt("other_defense", Absent) >>
      [] type = "leaseViolation" ->
             << Opt("improper_notice_30", Absent), Opt("violation_cured", Absent),
                Opt("no_violation", Absent) >>
      [] type = "holdover" ->
             << Opt("improper_termination_notice", Absent),
                Opt("new_tenancy_created", Absent) >>
      [] OTHER ->
             << Opt("improper_3_day_notice", Absent), Opt("lack_of_knowledge", Absent),
                Opt("prompt_action", Absent) >>

Policy(defenseStrategies, statuteStrategies) ==
    [defenseStrategies |-> defenseStrategies, statuteStrategies |-> statuteStrategies]

NoStrategies == [type \in {} |-> <<>>]

LayoutPolicy ==
    Policy([type \in EvTypes |-> [defenseOptions |-> LayoutOptions(type)]], NoStrategies)

\* A jurisdiction whose procedures file declares no strategies: the
\* defenses come from its statutes file.
StatutePolicy ==
    Policy(NoStrategies,
           [type \in EvTypes \ {"illegalActivity"} |->
               [defenses |-> <<"Improper Notice", "Payment  Made In Full">>]])

GenericPolicies ==
    { Policy([type \in EvTypes |-> [defenseOptions |-> list]], NoStrategies) :
        list \in OptionLists }

Policies == {LayoutPolicy, StatutePolicy} \cup GenericPolicies

FlagValues == {BoolTrue, BoolFalse}

BaseData ==
    [ state                     |-> "tn",
      evictionReason            |-> "nonpayment",
      reason                    |-> Absent,
      noticeReceived            |-> BoolFalse,
      noticeDate                |-> NoDate,
      filingDate                |-> NoDate,
      courtDate                 |-> NoDate,
      judgmentReceived          |-> BoolFalse,
      judgmentDate              |-> NoDate,
      paymentMade               |-> BoolFalse,
      propertyCondition         |-> Absent,
      recentComplaint           |-> BoolFalse,
      violationCured            |-> BoolFalse,
      rentAcceptedAfterLeaseEnd |-> BoolFalse,
      tenantUnaware             |-> BoolFalse,
      reportedActivity          |-> BoolFalse,
      partialPaymentAccepted    |-> BoolFalse,
      locksChanged              |-> BoolFalse,
      utilitiesShutOff          |-> BoolFalse,
      county                    |-> Absent ]

EvCase(data, policy, clock) == [data |-> data, policy |-> policy, clock |-> clock]

\* Reason texts: of one category, of several, of none, empty and missing;
\* the second component is the alternative field `reason`.
ReasonCases ==
    { <<text, Absent>> :
        text \in { Absent, "", "Noise complaints", "Nonpayment", "holdover", "Criminal acts",
                   "rent violation", "Drug use after lease EXPIRED",
                   "unauthorized guest past end of lease", "breach and nuisance",
                   "Pet", "apparent crime" } }
    \cup { <<Absent, "Lease breach">>, <<"", "holdover">> }

EvStates == {Absent, "TN", "pa", "nj", "ms", "ca"}

ClassificationCases ==
    { EvCase([BaseData EXCEPT !.evictionReason = rc[1], !.reason = rc[2], !.state = st],
             LayoutPolicy, 0) :
        rc \in ReasonCases, st \in EvStates }

CategoryWords == {"rent", "breach", "holdover", "illegal"}

\* Gaps between notice and filing on both sides of every required period.
GapDays ==
    UNION { {n - 1, n} :
            n \in {NonpaymentNoticeDays, LeaseViolationNoticeDays, HoldoverNoticeDays,
                   IllegalActivityNoticeDays} }
    \cup {10}

NoticeCases ==
    { EvCase([BaseData EXCEPT !.evictionReason = w, !.noticeDate = nd, !.filingDate = fd,
                              !.noticeReceived = nr, !.state = st],
             LayoutPolicy, 0) :
        w \in CategoryWords, nd \in {NoDate, IsoDate(0)},
        fd \in {NoDate, BadDate} \cup {IsoDate(g) : g \in GapDays},
        nr \in FlagValues, st \in {"tn", "pa"} }

\* Readings of the clock around a court date on day 15: the time left to
\* it, in ticks, lies on both sides of every urgency threshold.
CourtOffsets == {-1, 0, 1, 11, 12, 13, 15, 16, 27, 28, 29, 55, 56, 57}

EvClockPoints == {15 * TicksPerDay - d : d \in CourtOffsets}

CourtCases ==
    { EvCase([BaseData EXCEPT !.courtDate = cd, !.judgmentReceived = jr,
                              !.judgmentDate = jd, !.state = st],
             LayoutPolicy, t) :
        cd \in {NoDate, BadDate, IsoDate(15)}, jr \in FlagValues,
        jd \in {NoDate, BadDate, IsoDate(5)}, st \in {"tn", "ms"}, t \in EvClockPoints }

DefenseCases ==
    { EvCase([BaseData EXCEPT !.noticeReceived = nr, !.paymentMade = pm,
                              !.propertyCondition = pc, !.partialPaymentAccepted = pp,
                              !.locksChanged = lc, !.utilitiesShutOff = us, !.state = st],
             policy, 0) :
        nr \in FlagValues \cup {"true", Absent}, pm \in FlagValues,
        pc \in {Absent, "poor"}, pp \in FlagValues, lc \in FlagValues,
        us \in FlagValues, st \in {"tn", "nj"}, policy \in Policies }

FlagCases ==
    { EvCase([BaseData EXCEPT !.evictionReason = w, !.recentComplaint = f,
                              !.violationCured = f, !.rentAcceptedAfterLeaseEnd = f,
                              !.tenantUnaware = f, !.reportedActivity = f,
                              !.propertyCondition = pc],
             policy, 0) :
        w \in CategoryWords, f \in FlagValues, pc \in {"uninhabitable", "good"},
        policy \in {LayoutPolicy, StatutePolicy} }

EvCases == ClassificationCases \cup NoticeCases \cup CourtCases \cup DefenseCases
           \cup FlagCases

-----------------------------------------------------------------------------
(* Eviction specification                                                  *)

InitEvict ==
    /\ \E c \in EvCases :
        /\ evRequest = c.data
        /\ evPolicy = c.policy
        /\ now = c.clock
    /\ evTN = None
    /\ evMulti = None
    /\ request = None
    /\ verdict = None
    /\ prev = None
    /\ loads = 0

\* The Tennessee generator serves a request with the Tennessee policy files.
EvAnalyzeTN ==
    /\ evRequest # None
    /\ StateOf(evRequest) = "tn"
    /\ evTN' = generatePacketTN(evRequest, evPolicy, now)
    /\ UNCHANGED <<now, evRequest, evPolicy, evMulti, crimVars, loads>>

EvAnalyzeMulti ==
    /\ evRequest # None
    /\ evMulti' = generatePacket(evRequest, evPolicy, now)
    /\ loads' = Read(loads, LoadsOfLoadStateData(StateOf(evRequest)))
    /\ UNCHANGED <<now, evRequest, evPolicy, evTN, crimVars>>

NextEvict == EvAnalyzeTN \/ EvAnalyzeMulti

SpecEvict == InitEvict /\ [][NextEvict]_vars

-----------------------------------------------------------------------------
(* Both services: a run serves a criminal-relief or an eviction request    *)

Init == InitCrim \/ InitEvict

Next == AnalyzeTN \/ AnalyzeMulti \/ EvAnalyzeTN \/ EvAnalyzeMulti

Spec == Init /\ [][Next]_vars

-----------------------------------------------------------------------------
(* Eviction claims                                                         *)

\* The categories in the order the classifiers declare their rules.
RuleOrder == <<"nonpayment", "leaseViolation", "holdover", "illegalActivity">>

KeywordsTN ==
    <<NonpaymentKeywords, LeaseViolationKeywords, HoldoverKeywords,
      IllegalActivityKeywords>>

KeywordsMulti ==
    <<NonpaymentKeywordsMulti, LeaseViolationKeywordsMulti, HoldoverKeywordsMulti,
      IllegalActivityKeywordsMulti>>

\* The positions of the rules whose keyword set the text matches.
Matched(text, keywords) == {i \in DOMAIN RuleOrder : IncludesAny(text, keywords[i])}

Earliest(positions) == CHOOSE i \in positions : \A j \in positions : i <= j

\* The reason text each classifier reads from the request.
TextTN == ToLowerCase(OrEmpty(evRequest.evictionReason))

TextMulti == ReasonOf(evRequest)

DoneTN == evTN # None

DoneMulti == evMulti # None /\ evMulti.kind = "packet"

\* C5. Classifier precedence: for a reason text holding keywords of two or
\* more categories, each determineEvictionType returns the category whose
\* rule comes first in the order nonpayment, leaseViolation, holdover,
\* illegalActivity.
C5_ClassifierPrecedence ==
    /\ (DoneTN /\ Cardinality(Matched(TextTN, KeywordsTN)) >= 2)
       => evTN.evictionType.type = RuleOrder[Earliest(Matched(TextTN, KeywordsTN))]
    /\ (DoneMulti /\ Cardinality(Matched(TextMulti, KeywordsMulti)) >= 2)
       => evMulti.evictionType.type =
              RuleOrder[Earliest(Matched(TextMulti, KeywordsMulti))]

\* C5 witness: a text with holdover and illegal-activity keywords, classified
\* by both classifiers as holdover.
C5_Witness ==
    /\ DoneTN
    /\ DoneMulti
    /\ Matched(TextTN, KeywordsTN) = {3, 4}
    /\ Matched(TextMulti, KeywordsMulti) = {3, 4}
    /\ evTN.evictionType.type = "holdover"
    /\ evMulti.evictionType.type = "holdover"

\* The keywords of determineOutcome.
OutcomeKeywords ==
    {"dismiss", "dropped", "acquitt", "not guilty", "found not guilty", "diversion",
     "deferred", "convict", "guilty", "plea"}

\* C6. Classifier default: a description that matches no rule, empty and
\* missing descriptions included, is classified as the default category
\* (nonpayment for an eviction, unknown for a criminal-relief disposition,
\* which selects the general procedure), and the classification does not fail.
C6_ClassifierDefault ==
    /\ (DoneTN /\ Matched(TextTN, KeywordsTN) = {})
       => evTN.evictionType.type = "nonpayment"
    /\ (evMulti # None /\ loadStateData(StateOf(evRequest)).supported)
       => evMulti.kind = "packet"
    /\ (DoneMulti /\ Matched(TextMulti, KeywordsMulti) = {})
       => evMulti.evictionType.type = "nonpayment"
    /\ (/\ verdict # None
        /\ request.target = "tn"
        /\ ~IncludesAny(ToLowerCase(OrEmpty(request.situation.outcome)), OutcomeKeywords))
       => /\ determineOutcome(request.situation) = "unknown"
          /\ verdict.out.procedure = "general"
          /\ (~request.situation.hasPendingCharges => Status(verdict) = "unknown")

\* C6 witness: an empty description classified by both eviction classifiers.
C6_Witness ==
    /\ DoneTN
    /\ DoneMulti
    /\ evRequest.evictionReason \in {Absent, ""}
    /\ evRequest.reason = Absent
    /\ evTN.evictionType.type = "nonpayment"
    /\ evMulti.evictionType.type = "nonpayment"

\* The entries of a list with a given strength, in list order.
OfStrength(list, strength) == SelectSeq(list, LAMBDA d : d.strength = strength)

\* Strong entries precede moderate ones, which precede potential ones.
TierSorted(list) ==
    \A i, j \in DOMAIN list :
        i < j => StrengthOrder(list[i].strength) <= StrengthOrder(list[j].strength)

\* Entries of equal strength stand in the order of the declared list.
KeepsDeclaredOrder(list, declared) ==
    \A strength \in {"strong", "moderate", "potential"} :
        OfStrength(list, strength) = OfStrength(declared, strength)

\* C7. Defense ordering stability: in every defenses list an eviction
\* evaluation returns, strong entries precede moderate entries, which precede
\* potential entries, and entries of equal strength keep the order in which
\* the policy declared them.
C7_DefenseOrderingStability ==
    /\ DoneTN
       => /\ TierSorted(evTN.defenses)
          /\ KeepsDeclaredOrder(evTN.defenses, evTN.situationAnalysis.defenses)
          /\ TierSorted(evTN.situationAnalysis.defenses)
    /\ DoneMulti
       => /\ TierSorted(evMulti.defenses)
          /\ KeepsDeclaredOrder(evMulti.defenses,
                                RecommendedDefensesMulti(evPolicy,
                                                         evMulti.evictionType.type))

\* The gap between notice and filing in days, when both dates are readable.
IsoGap == evRequest.filingDate.day - evRequest.noticeDate.day

BothIso == evRequest.noticeDate.kind = "iso" /\ evRequest.filingDate.kind = "iso"

HasIssue(timeline, type) == \E i \in DOMAIN timeline.issues : timeline.issues[i].type = type

\* C8. Notice-compliance boundary: with noticeDate and filingDate both
\* present, a gap of exactly the category's required days is compliant (no
\* insufficient-notice issue, compliant = true) and a gap of one day less is
\* a violation (compliant = false).
C8_NoticeComplianceBoundary ==
    (DoneTN /\ BothIso)
    => /\ IsoGap = evTN.evictionType.noticeRequired
          => /\ evTN.timelineAnalysis.compliant
             /\ ~HasIssue(evTN.timelineAnalysis, "insufficient_notice")
       /\ IsoGap = evTN.evictionType.noticeRequired - 1
          => /\ ~evTN.timelineAnalysis.compliant
             /\ HasIssue(evTN.timelineAnalysis, "insufficient_notice")

\* C8 witness: a lease-violation notice filed on exactly the required day.
C8_Witness ==
    /\ DoneTN
    /\ BothIso
    /\ evTN.evictionType.type = "leaseViolation"
    /\ IsoGap = evTN.evictionType.noticeRequired
    /\ evTN.timelineAnalysis.compliant

\* C9. Whenever the timeline analysis finds the notice period non-compliant,
\* the returned defenses hold an improper-notice defense of strength strong,
\* whatever the noticeReceived flag says.
C9_ImproperNoticeWhenNonCompliant ==
    (DoneTN /\ ~evTN.timelineAnalysis.compliant)
    => \E i \in DOMAIN evTN.defenses :
          /\ evTN.defenses[i].id \in ImproperNoticeIds
          /\ evTN.defenses[i].strength = "strong"

\* The urgency the time left to the court date calls for.
UrgencyByCourtDate ==
    IF evRequest.courtDate.kind # "iso" THEN "standard"
    ELSE LET left == evRequest.courtDate.day * TicksPerDay - now
         IN  IF left <= 3 * TicksPerDay THEN "critical"
             ELSE IF left <= 7 * TicksPerDay THEN "urgent"
             ELSE IF left <= 14 * TicksPerDay THEN "elevated"
             ELSE "standard"

\* C10. The urgency level is a function of the days until courtDate only:
\* critical when the court date is at most 3 days away or past, urgent when
\* at most 7, elevated when at most 14, standard otherwise and whenever no
\* court date is given.
C10_UrgencyFromCourtDate ==
    /\ DoneTN => evTN.situationAnalysis.urgencyLevel = UrgencyByCourtDate
    /\ DoneMulti => evMulti.situationAnalysis.urgencyLevel = UrgencyByCourtDate

\* The appeal conditions a timeline analysis reports.
AppealConditions(timeline) ==
    {i \in DOMAIN timeline.issues :
        timeline.issues[i].type \in {"appeal_deadline", "appeal_deadline_passed"}}

\* Whole days from the judgment date to the clock reading.
IsoDaysSinceJudgment == FloorDiv(now - evRequest.judgmentDate.day * TicksPerDay, TicksPerDay)

\* max(0, window - daysSinceJudgment)
RemainingAppealDays(window) ==
    IF window - IsoDaysSinceJudgment > 0 THEN window - IsoDaysSinceJudgment ELSE 0

\* C11. Appeal window: whenever a judgment date is present, the remaining
\* appeal days are max(0, appealWindowDays - daysSinceJudgment) for the
\* jurisdiction's own appeal window, never negative, and exactly one of the
\* appeal-deadline and appeal-deadline-passed conditions is reported, the
\* latter when nothing remains.
C11_AppealWindow ==
    /\ (DoneTN /\ evRequest.judgmentDate.kind = "iso")
       => /\ evTN.timelineAnalysis.calculationDetails.daysLeftToAppeal
                = Num(RemainingAppealDays(EV_STATE_CONFIG.tn.appealDays))
          /\ Cardinality(AppealConditions(evTN.timelineAnalysis)) = 1
          /\ HasIssue(evTN.timelineAnalysis, "appeal_deadline_passed")
                <=> RemainingAppealDays(EV_STATE_CONFIG.tn.appealDays) = 0
    /\ (DoneMulti /\ evRequest.judgmentDate.kind = "iso")
       => Cardinality(AppealConditions(evMulti.timelineAnalysis)) = 1

-----------------------------------------------------------------------------
(* Criminal-relief claims on elapsed time                                  *)

\* The whole number of d-tick units in x ticks, truncated toward zero and
\* never negative.
WholeUnits(x, d) == IF x < 0 THEN 0 ELSE x \div d

\* The multi-state analyzer evaluated a request of a jurisdiction it holds.
DoneCrimMulti ==
    /\ verdict # None
    /\ request.target = "multi"
    /\ HasEligibility(verdict.out)

DoneCrimTN == verdict # None /\ request.target = "tn"

\* C12. Years elapsed since a disposition or completion date is the whole
\* number of 365.25-day years between that date and now, truncated toward
\* zero, and never negative, also for a date in the future.
C12_YearsElapsed ==
    (DoneCrimMulti /\ DispositionDate(request.situation).kind = "date")
    => LET date  == DispositionDate(request.situation)
           years == calculateYearsSince(date, verdict.at)
       IN  /\ ~years.nan
           /\ years.n >= 0
           /\ years.n = WholeUnits(verdict.at - date.t, Year36525)

\* A Tennessee felony conviction with a readable completion date, no
\* blocking offense, no pending charges and every obligation met.
ClearFelonyTN ==
    /\ verdict # None
    /\ HasEligibility(verdict.out)
    /\ request.state = "TN"
    /\ IsConviction(request.situation)
    /\ Includes(ToLowerCase(OrEmpty(request.situation.chargeType)), "felony")
    /\ NoBlockingOffense(verdict)
    /\ ~request.situation.hasPendingCharges
    /\ request.situation.allFinesPaid
    /\ request.situation.probationCompleted
    /\ request.situation.sentenceCompletionDate.kind = "iso"

\* The time from the sentence completion date to the evaluation.
SinceCompletion == verdict.at - ParseDate(request.situation.sentenceCompletionDate).t

\* C13. For a felony conviction with no blocking offense and all obligations
\* met: with the sentence completed exactly 5 calendar years ago the status
\* is eligible; with it completed 4 years 11 months ago the status is pending
\* and waitingPeriod is "1 more year".
C13_FiveYearBoundary ==
    ClearFelonyTN
    => /\ SinceCompletion \in FiveCalendarYears => Status(verdict) = "eligible"
       /\ SinceCompletion \in FourYearsElevenMonths
          => /\ Status(verdict) = "pending"
             /\ verdict.out.eligibility.waitingPeriod = "1 more year"

-----------------------------------------------------------------------------
(* Multi-state expungement API (src/api/expungement-multi-state.js)        *)

\* The upper-case letter of each lower-case letter.
UpperOf ==
    [c \in {SubSeq(LowerLetters, i, i) : i \in 1..Len(LowerLetters)} |->
        LET i == CHOOSE j \in 1..Len(LowerLetters) : SubSeq(LowerLetters, j, j) = c
        IN  SubSeq(UpperLetters, i, i)]

RECURSIVE ToUpperCase(_)
\* String.prototype.toUpperCase
ToUpperCase(s) ==
    IF Len(s) = 0 THEN ""
    ELSE (IF SubSeq(s, 1, 1) \in DOMAIN UpperOf
          THEN UpperOf[SubSeq(s, 1, 1)] ELSE SubSeq(s, 1, 1))
         \o ToUpperCase(SubSeq(s, 2, Len(s)))

\* getSupportedStates(): the codes of STATE_CONFIG.
getSupportedStates == DOMAIN STATE_CONFIG

\* The list of supported states is not part of a response.
NoStates == {}

\* res.status(status).json({error, supportedStates, data}); body is None
\* when the response carries no data.
Response(status, error, supportedStates, body) ==
    [status |-> status, error |-> error, supportedStates |-> supportedStates,
     body |-> body]

\* !data.chargeType && !data.chargeDescription && !data.outcome
InsufficientData(data) ==
    ~Truthy(data.chargeType) /\ ~Truthy(data.chargeDescription) /\ ~Truthy(data.outcome)

\* list.slice(0, 3)
FirstThree(list) == SubSeq(list, 1, IF Len(list) < 3 THEN Len(list) ELSE 3)

generateAnalysisSummary(analysis) ==
    [ status        |-> analysis.eligibility.status,
      confidence    |-> analysis.eligibility.confidence,
      canProceedNow |-> /\ analysis.eligibility.status = "eligible"
                        /\ analysis.eligibility.waitingPeriodMet # "false",
      cleanSlateEligible |-> analysis.cleanSlate.eligible,
      petitionEligible   |-> analysis.petitionBased.eligible,
      mainBlocker |->
          IF Len(analysis.eligibility.blockingFactors) > 0
          THEN analysis.eligibility.blockingFactors[1].factor
          ELSE IF analysis.eligibility.waitingPeriodMet # "true"
          THEN "Waiting period not complete"
          ELSE IF analysis.eligibility.status = "pending"
          THEN "Requirements not yet satisfied"
          ELSE Null,
      topActions |-> FirstThree(analysis.nextSteps) ]

\* The case of getQuickRecommendation that applies.
getQuickRecommendation(analysis) ==
    IF analysis.eligibility.status = "eligible"
    THEN IF analysis.cleanSlate.eligible THEN "clean slate" ELSE "eligible"
    ELSE IF analysis.eligibility.status = "ineligible"
    THEN IF Len(analysis.eligibility.blockingFactors) > 0
         THEN "ineligible: blocking factor" ELSE "ineligible"
    ELSE IF analysis.eligibility.status = "pending" THEN "pending"
    ELSE "more information needed"

\* The handler's catch branch: an exception becomes a 500 response.
InternalError == Response(500, "Internal server error", NoStates, None)

handleAnalyze(data, t) ==
    IF ~Truthy(data.state)
    THEN Response(400, "Missing data", getSupportedStates, None)
    ELSE LET state == ToUpperCase(data.state)
         IN  IF state \notin getSupportedStates
             THEN Response(400, "Unsupported state", getSupportedStates, None)
             ELSE IF InsufficientData(data.situation)
             THEN Response(400, "Insufficient data", NoStates, None)
             ELSE LET analysis == analyzeEligibility(state, data.situation, t)
                  IN  Response(200, Null, NoStates,
                               [ kind     |-> "analysis",
                                 analysis |-> analysis,
                                 summary  |-> generateAnalysisSummary(analysis) ])

\* analysis.eligibility.status of an analysis without an eligibility part
\* raises a TypeError, which the handler's catch branch answers.
handleCheckEligibility(data, t) ==
    IF ~Truthy(data.state)
    THEN Response(400, "Missing data", NoStates, None)
    ELSE LET state == ToUpperCase(data.state)
         IN  IF InsufficientData(data.situation)
             THEN Response(400, "Insufficient data", NoStates, None)
             ELSE LET analysis == analyzeEligibility(state, data.situation, t)
                  IN  IF ~HasEligibility(analysis)
                      THEN InternalError
                      ELSE Response(200, Null, NoStates,
                               [ kind        |-> "eligibility",
                                 state       |-> state,
                                 eligibility |-> analysis.eligibility,
                                 cleanSlate  |-> analysis.cleanSlate,
                                 nextSteps   |-> FirstThree(analysis.nextSteps),
                                 recommendation |-> getQuickRecommendation(analysis) ])

\* generatePacket of src/unnamed/part_000 for the json format.
generateExpungementPacket(state, situation, t) ==
    [ kind     |-> "packet",
      meta     |-> [state |-> state, generatedAt |-> ToISOString(t)],
      analysis |-> analyzeEligibility(state, situation, t) ]

\* The text format hands the options, not a packet, to generateTextPacket,
\* whose first read of packet.meta.stateName raises a TypeError.
handleGeneratePacket(data, t) ==
    IF ~Truthy(data.state)
    THEN Response(400, "Missing data", NoStates, None)
    ELSE IF ~data.hasSituation
    THEN Response(400, "Missing data", NoStates, None)
    ELSE LET state == ToUpperCase(data.state)
         IN  IF state \notin getSupportedStates
             THEN Response(400, "Unsupported state", getSupportedStates, None)
             ELSE IF data.format = "text"
             THEN InternalError
             ELSE Response(200, Null, NoStates,
                           generateExpungementPacket(state, data.situation, t))

\* The states, formats and situations sent to the API.
ApiStates == {Absent, "TN", "tn", "PA", "NJ", "MS", "ca"}

ApiSituations ==
    { [BaseSituation EXCEPT !.outcome = o, !.chargeType = c,
                            !.sentenceCompletionDate = s, !.hasPendingCharges = p]
      : o \in {Absent, "Dismissed", "Convicted", "nolle"}, c \in {Absent, "Felony"},
        s \in {NoDate, BadDate, IsoDate(0)}, p \in BOOLEAN }

ApiRequests ==
    { [target |-> "api", action |-> a, state |-> st, format |-> Absent,
       hasSituation |-> TRUE, situation |-> s]
      : a \in {"analyze", "check-eligibility", "generate-packet"},
        st \in ApiStates, s \in ApiSituations }
    \cup
    { [target |-> "api", action |-> "generate-packet", state |-> st, format |-> f,
       hasSituation |-> h, situation |-> BaseSituation]
      : st \in ApiStates, f \in {Absent, "json", "text"}, h \in BOOLEAN }

InitApi ==
    /\ now = 0
    /\ request \in ApiRequests
    /\ verdict = None
    /\ prev = None
    /\ evRequest = None
    /\ evPolicy = None
    /\ evTN = None
    /\ evMulti = None
    /\ loads = 0

\* One request served by the handler of its action at clock reading t.
Serve(response(_, _), reads) ==
    /\ \E t \in FiveCalendarYears \cup {now} :
          /\ t >= now
          /\ now' = t
          /\ verdict' = Evaluation(t, response(request, t))
    /\ prev' = verdict
    /\ loads' = Read(loads, reads)
    /\ UNCHANGED <<request, evVars>>

\* The handler reached the analysis of the request.
ReachesAnalysis(data, validatesState) ==
    /\ Truthy(data.state)
    /\ ~InsufficientData(data.situation)
    /\ validatesState => ToUpperCase(data.state) \in getSupportedStates

\* The handler reached the generation of a json packet.
ReachesPacket(data) ==
    /\ Truthy(data.state)
    /\ data.hasSituation
    /\ ToUpperCase(data.state) \in getSupportedStates
    /\ data.format # "text"

HandleAnalyze ==
    /\ request # None
    /\ request.target = "api"
    /\ request.action = "analyze"
    /\ Serve(handleAnalyze,
             IF ReachesAnalysis(request, TRUE)
             THEN LoadsOfAnalyzeEligibility(ToUpperCase(request.state)) ELSE 0)

HandleCheckEligibility ==
    /\ request # None
    /\ request.target = "api"
    /\ request.action = "check-eligibility"
    /\ Serve(handleCheckEligibility,
             IF ReachesAnalysis(request, FALSE)
             THEN LoadsOfAnalyzeEligibility(ToUpperCase(request.state)) ELSE 0)

HandleGeneratePacket ==
    /\ request # None
    /\ request.target = "api"
    /\ request.action = "generate-packet"
    /\ Serve(handleGeneratePacket,
             IF ReachesPacket(request)
             THEN LoadsOfGeneratePacket(ToUpperCase(request.state)) ELSE 0)

NextApi == HandleAnalyze \/ HandleCheckEligibility \/ HandleGeneratePacket

SpecApi == InitApi /\ [][NextApi]_vars

\* The request names a jurisdiction the registry does not hold.
UnregisteredState ==
    /\ Truthy(request.state)
    /\ ToUpperCase(request.state) \notin DOMAIN STATE_CONFIG

\* The response carries a verdict.
CarriesVerdict(response) ==
    /\ response.body # None
    /\ \/ response.body.kind = "eligibility"
       \/ HasEligibility(response.body.analysis)

\* C14. For every jurisdiction code with no registered policy, on every entry
\* point that evaluates a situation (analyze, check-eligibility, packet
\* generation), the request is rejected with an unsupported-jurisdiction
\* error that lists the supported jurisdictions, and no verdict is produced.
C14_UnsupportedJurisdiction ==
    (/\ verdict # None
     /\ request.target = "api"
     /\ UnregisteredState
     /\ request.hasSituation
     /\ ~InsufficientData(request.situation))
    => /\ verdict.out.error = "Unsupported state"
       /\ verdict.out.supportedStates = DOMAIN STATE_CONFIG
       /\ ~CarriesVerdict(verdict.out)

\* C15. Policy load-once: the policy data of a jurisdiction is loaded at most
\* once per process; any number of evaluations of the same jurisdiction,
\* first requests that overlap included, trigger a single load.
C15_PolicyLoadOnce == loads <= 1

\* A date field with a malformed value read as if it had not been sent.
AsAbsent(date) == IF date.kind = "malformed" THEN NoDate ELSE date

\* The situation with every malformed date replaced by no date.
WithoutMalformedDates(situation) ==
    [situation EXCEPT !.convictionDate = AsAbsent(@),
                      !.sentenceCompletionDate = AsAbsent(@)]

HasMalformedDate(situation) ==
    \/ situation.convictionDate.kind = "malformed"
    \/ situation.sentenceCompletionDate.kind = "malformed"

\* What the entry point of the request returns for a situation at time t.
VerdictFor(r, situation, t) ==
    IF r.target = "tn" THEN analyzeSituationTN(situation, t)
    ELSE analyzeEligibility(r.state, situation, t)

\* The parts of a verdict the comparison is about.
VerdictCore(out) ==
    [ status           |-> out.eligibility.status,
      waitingPeriod    |-> out.eligibility.waitingPeriod,
      waitingPeriodMet |-> out.eligibility.waitingPeriodMet,
      reasons          |-> out.eligibility.reasons ]

\* C16. A malformed date string is treated exactly like an absent date:
\* replacing the malformed date of a request by no date yields the same
\* verdict (status, waitingPeriod, waitingPeriodMet, reasons), and no value
\* of the verdict is computed from the unparsed date.
C16_MalformedDateAsAbsent ==
    (/\ verdict # None
     /\ request.target \in {"tn", "multi"}
     /\ HasEligibility(verdict.out)
     /\ HasMalformedDate(request.situation))
    => VerdictCore(verdict.out)
          = VerdictCore(VerdictFor(request,
                                   WithoutMalformedDates(request.situation),
                                   verdict.at))

-----------------------------------------------------------------------------
(* Request validation of the Tennessee expungement API                     *)
(* (src/api/generate-expungement-packet.js) and of the eviction API        *)
(* (src/unnamed/part_006)                                                  *)

\* validateSituationData: the fields reported missing.
validateSituationData(data) ==
    LET missingFields ==
            (IF ~Truthy(data.chargeType) /\ ~Truthy(data.chargeDescription)
             THEN <<"chargeType or chargeDescription">> ELSE <<>>)
            \o (IF ~Truthy(data.outcome) THEN <<"outcome">> ELSE <<>>)
    IN  [valid |-> missingFields = <<>>, missingFields |-> missingFields]

\* generateAnalysisSummary of the Tennessee API.
generateAnalysisSummaryTN(analysis) ==
    [ status        |-> analysis.eligibility.status,
      confidence    |-> analysis.eligibility.confidence,
      canProceedNow |-> /\ analysis.eligibility.status = "eligible"
                        /\ analysis.eligibility.waitingPeriodMet # "false",
      mainBlocker |->
          IF Len(analysis.eligibility.blockingFactors) > 0
          THEN analysis.eligibility.blockingFactors[1].factor
          ELSE IF analysis.eligibility.waitingPeriodMet # "true"
          THEN "Waiting period not complete"
          ELSE IF analysis.eligibility.status = "pending"
          THEN "Requirements not yet satisfied"
          ELSE Null,
      topActions |-> FirstThree(analysis.recommendations) ]

\* res.status(status).json({error, missingFields | issues, data}).
Answer(status, error, defects, body) ==
    [status |-> status, error |-> error, defects |-> defects, body |-> body]

\* handleAnalyze of the Tennessee API; the request always carries data.
handleAnalyzeTN(data, t) ==
    LET validation == validateSituationData(data)
    IN  IF ~validation.valid
        THEN Answer(400, "Invalid data", validation.missingFields, None)
        ELSE LET analysis == analyzeSituationTN(data, t)
             IN  Answer(200, Null, <<>>,
                        [ kind     |-> "analysis",
                          analysis |-> analysis,
                          summary  |-> generateAnalysisSummaryTN(analysis) ])

\* COUNTY_FILES of the eviction packet generator: the counties of each state.
COUNTY_FILES ==
    [ tn |-> {"davidson", "shelby", "knox"},
      pa |-> {"philadelphia", "allegheny"},
      nj |-> {"essex", "hudson"},
      ms |-> {"hinds", "harrison"} ]

\* isValidDate: the string has the form YYYY-MM-DD and parses to a date.
isValidDate(date) == date.kind = "iso"

\* validateInput: the fields with an issue, in the order they are pushed.
validateInput(data) ==
    LET issues ==
            (IF ~Truthy(data.state) THEN <<"state">>
             ELSE IF ToLowerCase(data.state) \notin DOMAIN EV_STATE_CONFIG
             THEN <<"state">> ELSE <<>>)
            \o (IF ~Truthy(data.evictionReason) /\ ~Truthy(data.reason)
                THEN <<"evictionReason">> ELSE <<>>)
            \o (IF HasDate(data.noticeDate) /\ ~isValidDate(data.noticeDate)
                THEN <<"noticeDate">> ELSE <<>>)
            \o (IF HasDate(data.courtDate) /\ ~isValidDate(data.courtDate)
                THEN <<"courtDate">> ELSE <<>>)
            \o (IF HasDate(data.filingDate) /\ ~isValidDate(data.filingDate)
                THEN <<"filingDate">> ELSE <<>>)
            \o (IF /\ Truthy(data.state) /\ Truthy(data.county)
                   /\ ToLowerCase(data.state) \in DOMAIN COUNTY_FILES
                   /\ ToLowerCase(data.county)
                         \notin COUNTY_FILES[ToLowerCase(data.state)]
                THEN <<"county">> ELSE <<>>)
    IN  [valid |-> issues = <<>>, issues |-> issues]

\* generatePacketJson of the eviction packet generator.
generatePacketJson(situationData, policy, t) ==
    LET packet == generatePacket(situationData, policy, t)
    IN  IF packet.kind = "error" THEN packet
        ELSE [ kind      |-> "packet",
               metadata  |-> [generatedAt |-> packet.generatedAt,
                              state |-> packet.state],
               analysis  |-> [ evictionType     |-> packet.evictionType,
                               timelineAnalysis |-> packet.timelineAnalysis,
                               urgencyLevel |-> packet.situationAnalysis.urgencyLevel ],
               defenses  |-> packet.defenses,
               nextSteps |-> packet.situationAnalysis.nextSteps ]

\* handleAnalyze of the eviction API; the request always carries data.  An
\* exception of the generator is answered by the catch branch.
handleAnalyzeEviction(data, policy, t) ==
    LET validation == validateInput(data)
    IN  IF ~validation.valid
        THEN Answer(400, "Validation failed", validation.issues, None)
        ELSE LET result == generatePacketJson(data, policy, t)
             IN  IF result.kind = "error"
                 THEN Answer(500, "Failed to analyze situation", <<>>, None)
                 ELSE Answer(200, Null, <<>>, result)

\* The situations sent to the Tennessee API: charge type, description and
\* outcome present or missing, dates absent, malformed and well-formed.
IntakeSituations ==
    { [BaseSituation EXCEPT !.chargeType = c, !.chargeDescription = d, !.outcome = o,
                            !.sentenceCompletionDate = s, !.allFinesPaid = f]
      : c \in {Absent, "Felony", "Misdemeanor"}, d \in {Absent, "theft"},
        o \in {Absent, "", "Dismissed", "Convicted", "nolle"},
        s \in {NoDate, BadDate, IsoDate(0)}, f \in BOOLEAN }

IntakeRequests ==
    { [target |-> "tn-api", state |-> "TN", situation |-> s] : s \in IntakeSituations }

\* The data sent to the eviction API.
IntakeCounties == {Absent, "Davidson", "essex", "Marion"}

IntakeEvictions ==
    { EvCase([BaseData EXCEPT !.state = st, !.evictionReason = er, !.reason = r,
                              !.noticeDate = nd, !.courtDate = cd, !.filingDate = fd,
                              !.county = co],
             LayoutPolicy, 0) :
        st \in EvStates, er \in {Absent, "", "rent"}, r \in {Absent, "holdover"},
        nd \in {NoDate, BadDate, IsoDate(0)}, cd \in {NoDate, BadDate, IsoDate(15)},
        fd \in {NoDate, BadDate, IsoDate(10)}, co \in IntakeCounties }

InitIntake ==
    /\ now = 0
    /\ verdict = None
    /\ prev = None
    /\ evTN = None
    /\ evMulti = None
    /\ loads = 0
    /\ \/ /\ request \in IntakeRequests
          /\ evRequest = None
          /\ evPolicy = None
       \/ /\ request = None
          /\ \E c \in IntakeEvictions :
                /\ evRequest = c.data
                /\ evPolicy = c.policy

\* POST {action: 'analyze', data} to the Tennessee expungement API.
PostAnalyzeTN ==
    /\ request # None
    /\ request.target = "tn-api"
    /\ \E t \in FiveCalendarYears \cup {now} :
          /\ t >= now
          /\ now' = t
          /\ verdict' = Evaluation(t, handleAnalyzeTN(request.situation, t))
    /\ prev' = verdict
    /\ UNCHANGED <<request, evVars, loads>>

\* POST {action: 'analyze', data} to the eviction API.
PostAnalyzeEviction ==
    /\ evRequest # None
    /\ verdict' = Evaluation(now, handleAnalyzeEviction(evRequest, evPolicy, now))
    /\ prev' = verdict
    /\ loads' = Read(loads,
                     IF validateInput(evRequest).valid
                     THEN LoadsOfLoadStateData(StateOf(evRequest)) ELSE 0)
    /\ UNCHANGED <<now, request, evVars>>

NextIntake == PostAnalyzeTN \/ PostAnalyzeEviction

SpecIntake == InitIntake /\ [][NextIntake]_vars

\* The jurisdiction of the request served is a supported one.
SupportedJurisdiction ==
    IF request # None THEN TRUE
    ELSE /\ Truthy(evRequest.state)
         /\ ToLowerCase(evRequest.state) \in DOMAIN EV_STATE_CONFIG

\* C17: every request with a supported jurisdiction is answered with a
\* complete verdict (status 200 and a body), whatever dates, flags or free
\* text it is missing or has malformed.
C17_NoFailureOnMalformedInput ==
    (verdict # None /\ SupportedJurisdiction)
    => /\ verdict.out.status = 200
       /\ verdict.out.body # None

-----------------------------------------------------------------------------
(* Criminal claims on the terminal dispositions                            *)

\* Both entry points read the request as a dismissal or an acquittal.
IsDismissal(situation) ==
    /\ determineOutcome(situation) \in {"dismissed", "acquitted"}
    /\ Context(situation, 0).wasDismissed

\* The verdict sets no waiting period.
NoWaitingPeriod(e) == e.out.eligibility.waitingPeriod \in {Null, "None"}

\* A verdict of a supported jurisdiction for a request without pending charges.
DoneWithoutPending ==
    /\ verdict # None
    /\ request.target \in {"tn", "multi"}
    /\ HasEligibility(verdict.out)
    /\ ~request.situation.hasPendingCharges

\* C18: a dismissal or an acquittal, without pending charges, gives status
\* eligible with confidence high and no waiting period, in every supported
\* jurisdiction.
C18_DismissalEligible ==
    (DoneWithoutPending /\ IsDismissal(request.situation))
    => /\ Status(verdict) = "eligible"
       /\ verdict.out.eligibility.confidence = "high"
       /\ NoWaitingPeriod(verdict)

\* The factor names DUI.
NamesDUI(factor) == Includes(ToLowerCase(factor.factor), "dui")

\* C19: a Tennessee conviction whose chargeType contains "dui", without
\* pending charges, gives status ineligible, and one of the blocking factors
\* names DUI.
C19_TennesseeDUI ==
    (/\ DoneWithoutPending
     /\ request.state = "TN"
     /\ IsConviction(request.situation)
     /\ Includes(ToLowerCase(OrEmpty(request.situation.chargeType)), "dui"))
    => /\ Status(verdict) = "ineligible"
       /\ \E i \in DOMAIN verdict.out.eligibility.blockingFactors :
             NamesDUI(verdict.out.eligibility.blockingFactors[i])

\* Neither entry point reads the disposition as a dismissal, an acquittal, a
\* diversion or a conviction.
IsUnknownDisposition(situation) ==
    /\ determineOutcome(situation) = "unknown"
    /\ ~Context(situation, 0).wasDismissed
    /\ ~Context(situation, 0).completedDiversion
    /\ ~Context(situation, 0).hasConviction

\* C20: a disposition that is none of dismissal, acquittal, diversion and
\* conviction, without pending charges, gives status unknown with confidence
\* low, in every supported jurisdiction.
C20_UnknownDisposition ==
    (DoneWithoutPending /\ IsUnknownDisposition(request.situation))
    => /\ Status(verdict) = "unknown"
       /\ verdict.out.eligibility.confidence = "low"

-----------------------------------------------------------------------------
(* Claims of the third group                                               *)

\* The category the multi-state generator classifies the request into.
CategoryMulti ==
    determineEvictionTypeMulti(ReasonOf(evRequest),
                               EV_STATE_CONFIG[StateOf(evRequest)]).type

\* The jurisdiction's configuration declares no notice period for the category.
NoThresholdEntry ==
    CategoryMulti \notin DOMAIN EV_STATE_CONFIG[StateOf(evRequest)].noticePeriods

\* Neither defense table of the policy files has an entry for the category.
NoDefenseEntry ==
    /\ CategoryMulti \notin DOMAIN evPolicy.defenseStrategies
    /\ CategoryMulti \notin DOMAIN evPolicy.statuteStrategies

\* C21: when the classified category has no entry in the jurisdiction's
\* threshold table or in its defense tables, the evaluation ends in an error
\* handed to the caller, never in a packet built from a default notice period
\* or an empty list of defenses.
C21_PolicyIntegrityError ==
    (/\ evMulti # None
     /\ loadStateData(StateOf(evRequest)).supported
     /\ (NoThresholdEntry \/ NoDefenseEntry))
    => evMulti.kind = "error"

\* The disposition is a diversion that has not been completed.
IsPendingDiversion(situation) ==
    /\ IncludesAny(ToLowerCase(OrEmpty(situation.outcome)), {"diversion", "deferred"})
    /\ ~IsDismissal(situation)
    /\ ~situation.diversionCompleted

\* C22: a diversion that has not been completed, without pending charges,
\* gives status pending, never eligible, in every supported jurisdiction.
C22_PendingDiversion ==
    (DoneWithoutPending /\ IsPendingDiversion(request.situation))
    => Status(verdict) = "pending"

\* The words by which the analyzers recognise an offense they exclude.
OffenseWords ==
    NJExcluded \cup ViolentIndicators
    \cup {"dui", "dwi", "driving under", "d.u.i", "domestic", "dv", "sex", "rape",
          "sexual", "statutory", "molestation", "violent", "assault", "robbery",
          "child", "minor", "traffick", "manufactur", "distribut", "sell"}

\* Neither the charge type nor the charge description names such an offense.
NoBlockingOffenseInInput(situation) ==
    /\ ~IncludesAny(ToLowerCase(OrEmpty(situation.chargeType)), OffenseWords)
    /\ ~IncludesAny(ToLowerCase(OrEmpty(situation.chargeDescription)), OffenseWords)
    /\ Truthy(situation.chargeType)

\* A conviction with no blocking offense and no pending charges, whose
\* sentence completion date is a well-formed date.
ClearConviction ==
    /\ DoneWithoutPending
    /\ IsConviction(request.situation)
    /\ NoBlockingOffenseInInput(request.situation)
    /\ request.situation.sentenceCompletionDate.kind = "iso"

\* Less than one 365-day year, the shortest waiting period of any
\* jurisdiction, lies between the sentence completion and the evaluation.
WithinFirstYear ==
    verdict.at - ParseDate(request.situation.sentenceCompletionDate).t < Year365

\* Both obligation flags of the request are true.
ObligationsMet ==
    request.situation.allFinesPaid /\ request.situation.probationCompleted

\* One of the blocking factors names outstanding obligations.
NamesObligations(factors) ==
    \E i \in DOMAIN factors :
        Includes(ToLowerCase(factors[i].factor), "outstanding")

\* C23: for a conviction with no blocking offense, a waiting period that no
\* jurisdiction counts as met gives pending; status eligible is given
\* only with both obligation flags true, and then with confidence medium;
\* status pending is given only while the waiting period is unmet; a met
\* waiting period with a flag false gives ineligible with an outstanding
\* obligations blocking factor.
C23_ConvictionCheckOrder ==
    ClearConviction
    => /\ WithinFirstYear => Status(verdict) = "pending"
       /\ Status(verdict) = "eligible"
              => ObligationsMet /\ verdict.out.eligibility.confidence = "medium"
       /\ (Status(verdict) # "pending" /\ ~ObligationsMet)
              => /\ Status(verdict) = "ineligible"
                 /\ NamesObligations(verdict.out.eligibility.blockingFactors)

\* The request sets the lock-change flag or the utility-shutoff flag.
SelfHelpFlagged == IsTrue(evRequest.locksChanged) \/ IsTrue(evRequest.utilitiesShutOff)

\* The list of defenses holds the illegal self-help eviction defense.
HoldsSelfHelp(defenses) ==
    \E i \in DOMAIN defenses : defenses[i].id = "self_help_eviction"

\* C24: with locksChanged or utilitiesShutOff set, the defenses returned by
\* either generator contain the illegal self-help eviction defense, whatever
\* the category and the jurisdiction.
C24_SelfHelpDefense ==
    /\ (DoneTN /\ SelfHelpFlagged)
           => /\ HoldsSelfHelp(evTN.situationAnalysis.defenses)
              /\ HoldsSelfHelp(evTN.defenses)
    /\ (DoneMulti /\ SelfHelpFlagged) => HoldsSelfHelp(evMulti.defenses)

\* The issues of a timeline analysis whose type is one of the given types.
IssuesOf(timeline, types) ==
    SelectSeq(timeline.issues, LAMBDA issue : issue.type \in types)

\* The three timing results of analyzeTimeline.
NoticeResult(timeline) ==
    [ daysBetween |-> timeline.calculationDetails.daysBetweenNoticeAndFiling,
      required    |-> timeline.calculationDetails.requiredDays,
      compliant   |-> timeline.compliant,
      issues      |-> IssuesOf(timeline, {"insufficient_notice"}) ]

CourtResult(timeline) ==
    [ daysUntilCourt |-> timeline.calculationDetails.daysUntilCourt,
      issues |-> IssuesOf(timeline, {"past_court_date", "urgent_court_date",
                                     "upcoming_court_date"}) ]

AppealResult(timeline) ==
    [ daysSinceJudgment |-> timeline.calculationDetails.daysSinceJudgment,
      daysLeftToAppeal  |-> timeline.calculationDetails.daysLeftToAppeal,
      issues |-> IssuesOf(timeline, {"appeal_deadline", "appeal_deadline_passed"}) ]

\* The results of a computation that did not run.
NoNoticeResult ==
    [daysBetween |-> Unset, required |-> Unset, compliant |-> TRUE, issues |-> <<>>]

NoCourtResult == [daysUntilCourt |-> Unset, issues |-> <<>>]

NoAppealResult ==
    [daysSinceJudgment |-> Unset, daysLeftToAppeal |-> Unset, issues |-> <<>>]

\* The timeline analysis of the request served, with one date removed.
TimelineWithout(field) ==
    analyzeTimeline([evRequest EXCEPT ![field] = NoDate], now)

\* C25: removing noticeDate, filingDate, courtDate or judgmentDate from the
\* request removes the timing result that depends on that date and leaves
\* the other timing results as they were.
C25_TimingIndependence ==
    DoneTN =>
      LET timeline == evTN.timelineAnalysis
      IN  /\ \A field \in {"noticeDate", "filingDate"} :
                /\ NoticeResult(TimelineWithout(field)) = NoNoticeResult
                /\ CourtResult(TimelineWithout(field)) = CourtResult(timeline)
                /\ AppealResult(TimelineWithout(field)) = AppealResult(timeline)
          /\ NoticeResult(TimelineWithout("courtDate")) = NoticeResult(timeline)
          /\ CourtResult(TimelineWithout("courtDate")) = NoCourtResult
          /\ AppealResult(TimelineWithout("courtDate")) = AppealResult(timeline)
          /\ NoticeResult(TimelineWithout("judgmentDate")) = NoticeResult(timeline)
          /\ CourtResult(TimelineWithout("judgmentDate")) = CourtResult(timeline)
          /\ AppealResult(TimelineWithout("judgmentDate")) = NoAppealResult

\* The status and confidence tags of a verdict.
StatusTags == {"eligible", "ineligible", "pending", "limited", "unknown"}

ConfidenceTags == {"low", "medium", "high"}

\* An evaluation of a jurisdiction the entry point called supports.
DoneSupported ==
    /\ verdict # None
    /\ request.target \in {"tn", "multi"}
    /\ request.state \in getSupportedStates

\* C26: every criminal-relief evaluation of a supported jurisdiction returns
\* a verdict with an eligibility part, whose status is one of eligible,
\* ineligible, pending, limited, unknown and whose confidence is one of low,
\* medium, high.
C26_VerdictTags ==
    DoneSupported
    => /\ HasEligibility(verdict.out)
       /\ Status(verdict) \in StatusTags
       /\ verdict.out.eligibility.confidence \in ConfidenceTags

\* Both entry points have answered; the multi-state analyzer gave the status
\* limited or kept its initial status, the Tennessee analyzer kept its
\* initial confidence for a request with pending charges.
C26_Witness ==
    /\ DoneSupported
    /\ \/ request.target = "multi" /\ Status(verdict) = "limited"
       \/ /\ request.target = "tn"
          /\ request.situation.hasPendingCharges
          /\ verdict.out.eligibility.confidence = "low"

\* The list of steps holds the critical step to file the appeal.
HoldsAppealStep(steps) ==
    \E i \in DOMAIN steps :
        steps[i].priority = "critical" /\ steps[i].action = "File appeal immediately"

\* C27: in the Tennessee eviction analyzer, with judgmentReceived set and
\* days left to appeal above zero, the analysis reports the urgency level
\* critical and its nextSteps contain the critical step "File appeal
\* immediately".
C27_AppealStepFromUrgency ==
    (/\ DoneTN
     /\ IsTrue(evRequest.judgmentReceived)
     /\ NumGT(evTN.timelineAnalysis.calculationDetails.daysLeftToAppeal, 0))
    => /\ evTN.situationAnalysis.urgencyLevel = "critical"
       /\ HoldsAppealStep(evTN.situationAnalysis.nextSteps)

\* C28: in every verdict of the multi-state criminal-relief analyzer, status
\* eligible comes with an empty list of blocking factors.
C28_EligibleWithoutBlockers ==
    (DoneCrimMulti /\ Status(verdict) = "eligible") => NoBlockingOffense(verdict)

\* C29: for the same courtDate and the same current time, with no judgment
\* received, the Tennessee eviction analyzer and the multi-state eviction
\* generator report the same urgency level.
C29_UrgencyAgreement ==
    (DoneTN /\ DoneMulti /\ ~IsTrue(evRequest.judgmentReceived))
    => evTN.situationAnalysis.urgencyLevel = evMulti.situationAnalysis.urgencyLevel

\* The eligibility status each Tennessee entry point returns for the request
\* served, at the clock reading of the evaluation.
StatusOfTNAnalyzer ==
    analyzeSituationTN(request.situation, verdict.at).eligibility.status

StatusOfMultiStateTN ==
    analyzeEligibility("TN", request.situation, verdict.at).eligibility.status

\* C30: for every Tennessee criminal-relief input, the Tennessee analyzer and
\* the multi-state analyzer run with state TN return the same eligibility
\* status.
C30_TennesseeAgreement ==
    (/\ verdict # None
     /\ request.target \in {"tn", "multi"}
     /\ request.state = "TN")
    => StatusOfTNAnalyzer = StatusOfMultiStateTN

====
